---- MODULE Spec2Model ----
(***************************************************************************)
(* Travel Route Recorder: the AppComponent state (signals), its handlers   *)
(* and the GeminiService resolver they await, as a state machine.          *)
(*                                                                         *)
(* JavaScript values whose dynamic type the code inspects (trip id,        *)
(* coordinates, stamps) are tagged records [type, val]; an object key that *)
(* is absent is a record field that is absent, and reading it yields       *)
(* Undefined, as in JavaScript.                                            *)
(***************************************************************************)
EXTENDS Integers, Sequences, FiniteSets, TLC

VARIABLES
    locationInput,      \* signal: raw text, as the sequence of its comma-separated pieces
    isLoading,          \* signal
    isExporting,        \* signal
    isGeneratingIcon,   \* signal
    mapStyle,           \* signal
    routeColor,         \* signal
    routeWeight,        \* signal
    customIconUrl,      \* signal: Null or a URL
    mapHeight,          \* signal
    routeCoordinates,   \* signal: sequence of ValidCoordinate
    missingLocations,   \* signal: sequence of names
    stamps,             \* signal: sequence of Stamp
    statusMessage,      \* signal
    savedTrips,         \* signal: sequence of SavedTrip, most recent first
    tripToDelete,       \* signal: Null or the id of the trip pending deletion
    storage,            \* localStorage['travel_route_trips']: Null or the stored JSON array
    pendingResolves,    \* resolver calls awaited by onGenerateRoute, oldest first
    pendingLoads,       \* setTimeout(150) callbacks scheduled by loadTrip, oldest first
    exportFile,         \* the file written by the last downloadTripData, or Null
    idCounter,          \* number of ids generateId has handed out
    alerted,            \* text of the alert() raised by the last handler, "" when none
    lastOp,             \* name of the last handler that ran
    savedFrom,          \* history: id of a trip made by saveTrip -> the state it was made from
    lastResolve,        \* the resolver call whose return the last handler processed, or NoCall
    editingStamp,       \* signal: Null or the copy of a stamp open in the editor
    isGeneratingStamp,  \* signal
    stampPrompt,        \* signal
    pendingStamps,      \* generateStampImage calls awaited by generateAiStamp: the stamp each captured
    pendingIcons,       \* uploads of onUploadIcon under way: the file being read or sent for an icon
    pendingExports,     \* runs of downloadSelectedStamps: the html2canvas captures each has left
    mapView,            \* the Leaflet map and its layers, and what the effects last ran with
    pendingReads        \* file reads of onUploadStampImage under way: the data URL each will give

vars == <<locationInput, isLoading, isExporting, isGeneratingIcon, mapStyle,
          routeColor, routeWeight, customIconUrl, mapHeight, routeCoordinates,
          missingLocations, stamps, statusMessage, savedTrips, tripToDelete,
          storage, pendingResolves, pendingLoads, exportFile, idCounter,
          alerted, lastOp, savedFrom, lastResolve, editingStamp, isGeneratingStamp,
          stampPrompt, pendingStamps, pendingIcons, pendingExports, mapView,
          pendingReads>>

routeStore == <<routeCoordinates, missingLocations, stamps>>
styleVars == <<mapStyle, routeColor, routeWeight, customIconUrl, mapHeight>>
flagVars == <<isLoading, isExporting, isGeneratingIcon>>
editorVars == <<editingStamp, isGeneratingStamp, stampPrompt>>
callVars == <<pendingStamps, pendingIcons, pendingExports>>

----------------------------------------------------------------------------
(* Bounds of the model *)

MaxIds == 3         \* calls of generateId in one run
MaxTrips == 2       \* length of the saved list at which no further trip is added
MaxResolves == 1    \* calls of one external service in flight
MaxLoads == 1       \* loadTrip timers pending

----------------------------------------------------------------------------
(* JavaScript values *)

Null == [type |-> "null", val |-> ""]
Undefined == [type |-> "undefined", val |-> ""]
Str(s) == [type |-> "string", val |-> s]
Num(s) == [type |-> "number", val |-> s]        \* s is the decimal text of the number
Arr(s) == [type |-> "array", val |-> s]
Obj(s) == [type |-> "object", val |-> s]

\* obj[key]: Undefined when the key is absent
Get(obj, key) == IF key \in DOMAIN obj THEN obj[key] ELSE Undefined

\* !v  (the values of the model that are falsy)
Falsy(v) == v \in {Null, Undefined, Str(""), Num("0")}

IsArray(v) == v.type = "array"

\* String(v) for a number v
StringOf(v) == Str(v.val)

Range(s) == {s[i] : i \in DOMAIN s}

NoAlert == ""       \* no alert() was raised

\* the last handler did not process the return of a resolver call
NoCall == [locations |-> <<>>, rawCoords |-> <<>>]

----------------------------------------------------------------------------
(* Inputs of the model *)

\* entries the resolver returns: lat and lng are <<n>> for the number n, <<>> for null
ParisPoint == [name |-> "Paris", lat |-> <<48>>, lng |-> <<2>>]
AtlantisPoint == [name |-> "Atlantis", lat |-> <<>>, lng |-> <<>>]
NullIslandPoint == [name |-> "Null Island", lat |-> <<0>>, lng |-> <<0>>]
QuitoPoint == [name |-> "Quito", lat |-> <<0>>, lng |-> <<-78>>]
UnnamedPoint == [name |-> "", lat |-> <<>>, lng |-> <<>>]


MaxWaypoints == 2   \* length of a resolver response

Responses == UNION {[1..n -> {ParisPoint, NullIslandPoint, QuitoPoint, UnnamedPoint}] : n \in 0..MaxWaypoints}

\* a sample of Math.floor(Math.random() * 30) - 15
Rotations == {14}

\* errors getCoordinatesForLocations rethrows: status and code as the handler reads them
QuotaError == [status |-> "RESOURCE_EXHAUSTED", code |-> 0]
RateLimitError == [status |-> "", code |-> 429]
NetworkError == [status |-> "UNAVAILABLE", code |-> 503]

ResolverErrors == {QuotaError, RateLimitError, NetworkError}

----------------------------------------------------------------------------
(* generateId and createVisualStamps *)

\* the n-th id generateId hands out; ids are fresh
generateId(n) == "g" \o ToString(n)

colors == <<"border-indigo-600 text-indigo-800", "border-rose-600 text-rose-800",
            "border-emerald-600 text-emerald-800", "border-amber-600 text-amber-800",
            "border-blue-600 text-blue-800">>

Today == "today"    \* new Date().toLocaleDateString()

\* stamps whose colors start at the second color of the palette
createVisualStampsShifted(coords, ids, rot) ==
    [i \in 1..Len(coords) |->
        [id |-> "stamp-" \o generateId(ids + i),
         name |-> coords[i].name,
         rotation |-> rot[i],
         color |-> colors[(i % Len(colors)) + 1],
         date |-> Today,
         time |-> "12:00",
         selected |-> FALSE,
         description |-> "Classic ink stamp"]]

\* the stamps createVisualStamps sets, given the ids handed out so far and the rotations sampled
createVisualStamps(coords, ids, rot) ==
    [i \in 1..Len(coords) |->
        [id |-> "stamp-" \o generateId(ids + i),
         name |-> coords[i].name,
         rotation |-> rot[i],
         color |-> colors[((i - 1) % Len(colors)) + 1],
         date |-> Today,
         time |-> "12:00",
         selected |-> FALSE,
         description |-> "Classic ink stamp"]]

----------------------------------------------------------------------------
(* onGenerateRoute *)

\* String.prototype.trim on a piece
Trim(piece) == IF piece \in {"", " "} THEN ""
               ELSE IF piece = " Rome " THEN "Rome"
               ELSE piece

\* text.trim() is the empty string: no comma and nothing but white space
IsBlank(raw) == Len(raw) = 1 /\ Trim(raw[1]) = ""

NonEmpty(s) == s # ""

\* rawInput.split(',').map(s => s.trim()).filter(s => s.length > 0)
ParseLocations(raw) == SelectSeq([i \in DOMAIN raw |-> Trim(raw[i])], NonEmpty)

\* the test of step 3 without its comparisons with 0
IsValidCoordinateNullOnly(item) ==
    /\ item.lat # <<>>
    /\ item.lng # <<>>

\* the test of step 3 of onGenerateRoute
IsValidCoordinate(item) ==
    /\ item.lat # <<>>
    /\ item.lng # <<>>
    /\ item.lat # <<0>>
    /\ item.lng # <<0>>

ToValid(item) == [name |-> item.name, lat |-> item.lat[1], lng |-> item.lng[1]]

\* item.name || locations[index]
MissingName(item, locations, index) ==
    IF item.name # "" THEN item.name
    ELSE IF index \in DOMAIN locations THEN locations[index]
    ELSE "undefined"

RECURSIVE ValidCoords(_, _)
ValidCoords(rawCoords, index) ==
    IF index > Len(rawCoords) THEN <<>>
    ELSE (IF IsValidCoordinate(rawCoords[index]) THEN <<ToValid(rawCoords[index])>> ELSE <<>>)
         \o ValidCoords(rawCoords, index + 1)

RECURSIVE Missing(_, _, _)
Missing(rawCoords, locations, index) ==
    IF index > Len(rawCoords) THEN <<>>
    ELSE (IF IsValidCoordinate(rawCoords[index]) THEN <<>>
          ELSE <<MissingName(rawCoords[index], locations, index)>>)
         \o Missing(rawCoords, locations, index + 1)

\* a status that counts every entry of the response as found
FoundStatusTotal(v, m) ==
    "Found " \o ToString(v + m) \o " places. " \o ToString(m) \o " missing."

\* `Found ${validCoords.length} places. ${missing.length} missing.`
FoundStatus(v, m) == "Found " \o ToString(v) \o " places. " \o ToString(m) \o " missing."

\* a request that clears the route and keeps the custom icon
OnGenerateRouteKeepsIcon ==
    /\ ~IsBlank(locationInput)
    /\ lastOp' = "onGenerateRoute"
    /\ alerted' = NoAlert
    /\ isLoading' = TRUE
    /\ statusMessage' = "Tracing your route on the globe..."
    /\ routeCoordinates' = <<>>
    /\ missingLocations' = <<>>
    /\ stamps' = <<>>
    /\ pendingResolves' = Append(pendingResolves, ParseLocations(locationInput))
    /\ UNCHANGED <<locationInput, isExporting, isGeneratingIcon, styleVars, savedTrips,
                   tripToDelete, storage, pendingLoads, exportFile, idCounter, savedFrom>>
    /\ lastResolve' = NoCall
    /\ UNCHANGED <<mapView, pendingReads>>
    /\ UNCHANGED <<editorVars, callVars>>

\* a further call of the resolver stays within MaxResolves calls in flight
CallsLeft == IsBlank(locationInput) \/ Len(pendingResolves) < MaxResolves

\* the handler up to its await; nothing in it looks at the calls in flight
OnGenerateRoute ==
    /\ lastOp' = "onGenerateRoute"
    /\ alerted' = NoAlert
    /\ IF IsBlank(locationInput)
       THEN UNCHANGED <<isLoading, statusMessage, routeStore, customIconUrl, pendingResolves>>
       ELSE /\ isLoading' = TRUE
            /\ statusMessage' = "Tracing your route on the globe..."
            /\ routeCoordinates' = <<>>
            /\ missingLocations' = <<>>
            /\ stamps' = <<>>
            /\ customIconUrl' = Null
            /\ pendingResolves' = Append(pendingResolves, ParseLocations(locationInput))
    /\ UNCHANGED <<locationInput, isExporting, isGeneratingIcon, mapStyle, routeColor,
                   routeWeight, mapHeight, savedTrips, tripToDelete, storage,
                   pendingLoads, exportFile, idCounter, savedFrom>>
    /\ lastResolve' = NoCall
    /\ UNCHANGED <<mapView, pendingReads>>
    /\ UNCHANGED <<editorVars, callVars>>

RemoveAt(s, k) == SubSeq(s, 1, k - 1) \o SubSeq(s, k + 1, Len(s))

\* generateId can still hand out an id for every valid entry of rawCoords
IdsLeft(rawCoords) == idCounter + Len(ValidCoords(rawCoords, 1)) <= MaxIds

\* a handler that drops a response whose request is no longer the text of the input box
ResolverReturnsIfCurrent(k, rawCoords, rot) ==
    LET locations == pendingResolves[k]
        validCoords == ValidCoords(rawCoords, 1)
        missing == Missing(rawCoords, locations, 1)
        current == locations = ParseLocations(locationInput)
    IN  /\ DOMAIN rot = 1..Len(validCoords)
        /\ pendingResolves' = RemoveAt(pendingResolves, k)
        /\ IF ~current
           THEN UNCHANGED <<routeStore, statusMessage, idCounter>>
           ELSE /\ missingLocations' = missing
                /\ IF Len(validCoords) = 0
                   THEN /\ statusMessage' = "Could not find any of those locations."
                        /\ UNCHANGED <<routeCoordinates, stamps, idCounter>>
                   ELSE /\ routeCoordinates' = validCoords
                        /\ statusMessage' = IF Len(missing) > 0
                                             THEN FoundStatus(Len(validCoords), Len(missing))
                                             ELSE "Route mapped!"
                        /\ stamps' = createVisualStamps(validCoords, idCounter, rot)
                        /\ idCounter' = idCounter + Len(validCoords)
        /\ isLoading' = FALSE
        /\ alerted' = NoAlert
        /\ lastOp' = "resolverReturns"
        /\ lastResolve' = [locations |-> <<locations>>, rawCoords |-> rawCoords]
        /\ UNCHANGED <<mapView, pendingReads>>
        /\ UNCHANGED <<editorVars, callVars>>
        /\ UNCHANGED <<locationInput, isExporting, isGeneratingIcon, styleVars,
                       savedTrips, tripToDelete, storage, pendingLoads, exportFile, savedFrom>>

\* a handler that stops before step 3 records the missing names when nothing is valid
ResolverReturnsStopsEarly(k, rawCoords, rot) ==
    LET locations == pendingResolves[k]
        validCoords == ValidCoords(rawCoords, 1)
        missing == Missing(rawCoords, locations, 1)
    IN  /\ DOMAIN rot = 1..Len(validCoords)
        /\ pendingResolves' = RemoveAt(pendingResolves, k)
        /\ IF Len(validCoords) = 0
           THEN /\ statusMessage' = "Could not find any of those locations."
                /\ UNCHANGED <<routeCoordinates, missingLocations, stamps, idCounter>>
           ELSE /\ routeCoordinates' = validCoords
                /\ missingLocations' = missing
                /\ statusMessage' = IF Len(missing) > 0
                                     THEN FoundStatus(Len(validCoords), Len(missing))
                                     ELSE "Route mapped!"
                /\ stamps' = createVisualStamps(validCoords, idCounter, rot)
                /\ idCounter' = idCounter + Len(validCoords)
        /\ isLoading' = FALSE
        /\ alerted' = NoAlert
        /\ lastOp' = "resolverReturns"
        /\ lastResolve' = [locations |-> <<locations>>, rawCoords |-> rawCoords]
        /\ UNCHANGED <<mapView, pendingReads>>
        /\ UNCHANGED <<editorVars, callVars>>
        /\ UNCHANGED <<locationInput, isExporting, isGeneratingIcon, styleVars,
                       savedTrips, tripToDelete, storage, pendingLoads, exportFile, savedFrom>>

\* the handler after getCoordinatesForLocations returned rawCoords for the k-th pending call
ResolverReturns(k, rawCoords, rot) ==
    LET locations == pendingResolves[k]
        validCoords == ValidCoords(rawCoords, 1)
        missing == Missing(rawCoords, locations, 1)
    IN  /\ DOMAIN rot = 1..Len(validCoords)
        /\ pendingResolves' = RemoveAt(pendingResolves, k)
        /\ missingLocations' = missing
        /\ IF Len(validCoords) = 0
           THEN /\ statusMessage' = "Could not find any of those locations."
                /\ UNCHANGED <<routeCoordinates, stamps, idCounter>>
           ELSE /\ routeCoordinates' = validCoords
                /\ statusMessage' = IF Len(missing) > 0
                                     THEN FoundStatus(Len(validCoords), Len(missing))
                                     ELSE "Route mapped!"
                /\ stamps' = createVisualStamps(validCoords, idCounter, rot)
                /\ idCounter' = idCounter + Len(validCoords)
        /\ isLoading' = FALSE
        /\ alerted' = NoAlert
        /\ lastOp' = "resolverReturns"
        /\ lastResolve' = [locations |-> <<locations>>, rawCoords |-> rawCoords]
        /\ UNCHANGED <<mapView, pendingReads>>
        /\ UNCHANGED <<editorVars, callVars>>
        /\ UNCHANGED <<locationInput, isExporting, isGeneratingIcon, styleVars,
                       savedTrips, tripToDelete, storage, pendingLoads, exportFile, savedFrom>>

QuotaStatus == "AI Quota Exceeded. Please try again later."
ConnectionStatus == "Something went wrong. Please check your internet connection."

\* a test that looks at the status only
IsQuotaByStatus(error) == error.status = "RESOURCE_EXHAUSTED"

\* error.status === 'RESOURCE_EXHAUSTED' || error.code === 429
IsQuota(error) == error.status = "RESOURCE_EXHAUSTED" \/ error.code = 429

\* a catch without the finally: isLoading is left set
ResolverThrowsNoFinally(k, error) ==
    /\ pendingResolves' = RemoveAt(pendingResolves, k)
    /\ statusMessage' = IF IsQuota(error) THEN QuotaStatus ELSE ConnectionStatus
    /\ UNCHANGED isLoading
    /\ alerted' = NoAlert
    /\ lastOp' = "resolverThrows"
    /\ UNCHANGED <<locationInput, isExporting, isGeneratingIcon, styleVars, routeStore,
                   savedTrips, tripToDelete, storage, pendingLoads, exportFile,
                   idCounter, savedFrom>>
    /\ lastResolve' = NoCall
    /\ UNCHANGED <<mapView, pendingReads>>
    /\ UNCHANGED <<editorVars, callVars>>

\* the handler after getCoordinatesForLocations threw for the k-th pending call
ResolverThrows(k, error) ==
    /\ pendingResolves' = RemoveAt(pendingResolves, k)
    /\ statusMessage' = IF IsQuota(error) THEN QuotaStatus ELSE ConnectionStatus
    /\ isLoading' = FALSE
    /\ alerted' = NoAlert
    /\ lastOp' = "resolverThrows"
    /\ UNCHANGED <<locationInput, isExporting, isGeneratingIcon, styleVars, routeStore,
                   savedTrips, tripToDelete, storage, pendingLoads, exportFile,
                   idCounter, savedFrom>>
    /\ lastResolve' = NoCall
    /\ UNCHANGED <<mapView, pendingReads>>
    /\ UNCHANGED <<editorVars, callVars>>

\* the user edits the location box
SetLocationInput(raw) ==
    /\ raw # locationInput
    /\ locationInput' = raw
    /\ alerted' = NoAlert
    /\ lastOp' = "setLocationInput"
    /\ UNCHANGED <<flagVars, styleVars, routeStore, statusMessage, savedTrips, tripToDelete,
                   storage, pendingResolves, pendingLoads, exportFile, idCounter, savedFrom>>
    /\ lastResolve' = NoCall
    /\ UNCHANGED <<mapView, pendingReads>>
    /\ UNCHANGED <<editorVars, callVars>>

----------------------------------------------------------------------------
(* the style controls: the user sets the map style or the map height *)

setMapStyle(style) ==
    /\ style # mapStyle
    /\ mapStyle' = style
    /\ alerted' = NoAlert
    /\ lastOp' = "setMapStyle"
    /\ UNCHANGED <<locationInput, flagVars, routeColor, routeWeight, customIconUrl, mapHeight,
                   routeStore, statusMessage, savedTrips, tripToDelete, storage,
                   pendingResolves, pendingLoads, exportFile, idCounter, savedFrom>>
    /\ lastResolve' = NoCall
    /\ UNCHANGED <<mapView, pendingReads>>
    /\ UNCHANGED <<editorVars, callVars>>

setMapHeight(height) ==
    /\ height # mapHeight
    /\ mapHeight' = height
    /\ alerted' = NoAlert
    /\ lastOp' = "setMapHeight"
    /\ UNCHANGED <<locationInput, flagVars, mapStyle, routeColor, routeWeight, customIconUrl,
                   routeStore, statusMessage, savedTrips, tripToDelete, storage,
                   pendingResolves, pendingLoads, exportFile, idCounter, savedFrom>>
    /\ lastResolve' = NoCall
    /\ UNCHANGED <<mapView, pendingReads>>
    /\ UNCHANGED <<editorVars, callVars>>

----------------------------------------------------------------------------
(* JSON.stringify / JSON.parse and localStorage *)

\* JSON.stringify omits the keys whose value is undefined
JsonStamp(s) ==
    [k \in {k \in DOMAIN s : k # "imageUrl" \/ s[k] # Undefined} |-> s[k]]

JsonStyle(sc) ==
    [k \in {k \in DOMAIN sc : k # "customIconUrl" \/ sc[k] # Undefined} |-> sc[k]]

JsonField(key, v) ==
    IF key = "stamps" /\ IsArray(v) THEN Arr([i \in DOMAIN v.val |-> JsonStamp(v.val[i])])
    ELSE IF key = "styleConfig" THEN JsonStyle(v)
    ELSE v

\* JSON.parse(JSON.stringify(trip))
JsonTrip(t) ==
    [k \in {k \in DOMAIN t : k # "id" \/ t[k] # Undefined} |-> JsonField(k, t[k])]

JsonTrips(trips) == [i \in DOMAIN trips |-> JsonTrip(trips[i])]

\* a write that never fails
persistTripsAlways(trips, ok) == Arr(JsonTrips(trips))

\* localStorage after persistTrips(trips); setItem throws when the quota is exceeded
persistTrips(trips, ok) == IF ok THEN Arr(JsonTrips(trips)) ELSE storage

----------------------------------------------------------------------------
(* saveTrip *)

\* this.customIconUrl() || undefined
IconOrUndefined(url) == IF Falsy(url) THEN Undefined ELSE url

newTripOf(id) ==
    [id |-> Str(id),
     name |-> routeCoordinates[1].name \o " Trip",
     date |-> idCounter,
     locations |-> locationInput,
     coordinates |-> Arr(routeCoordinates),
     stamps |-> Arr(stamps),
     styleConfig |-> [style |-> mapStyle,
                      color |-> routeColor,
                      weight |-> routeWeight,
                      customIconUrl |-> IconOrUndefined(customIconUrl),
                      mapHeight |-> mapHeight]]

SavedAlert == "Trip saved to library!"
StorageFullAlert == "Storage Full! This trip is saved for this session, but will disappear on refresh. Please download the Data Config to save it permanently."

\* what the session looked like when a trip was saved
Snapshot == [routeCoordinates |-> routeCoordinates,
             missingLocations |-> missingLocations,
             stamps |-> stamps,
             mapStyle |-> mapStyle,
             routeColor |-> routeColor,
             routeWeight |-> routeWeight,
             customIconUrl |-> customIconUrl,
             mapHeight |-> mapHeight]

\* the new trip put last instead of first
AppendTrip(trip, trips) == trips \o <<trip>>

\* [newTrip, ...this.savedTrips()]
PrependTrip(trip, trips) == <<trip>> \o trips

saveTrip(ok) ==
    /\ lastOp' = "saveTrip"
    /\ IF Len(routeCoordinates) = 0
       THEN /\ ok
            /\ alerted' = NoAlert
            /\ UNCHANGED <<savedTrips, storage, idCounter, savedFrom>>
       ELSE /\ Len(savedTrips) < MaxTrips
            /\ idCounter < MaxIds
            /\ LET newTrip == newTripOf(generateId(idCounter + 1))
                   updatedTrips == PrependTrip(newTrip, savedTrips)
               IN  /\ savedTrips' = updatedTrips
                   /\ storage' = persistTrips(updatedTrips, ok)
                   /\ savedFrom' = [i \in DOMAIN savedFrom \cup {generateId(idCounter + 1)} |->
                                      IF i \in DOMAIN savedFrom THEN savedFrom[i] ELSE Snapshot]
            /\ idCounter' = idCounter + 1
            /\ alerted' = IF ok THEN SavedAlert ELSE StorageFullAlert
    /\ UNCHANGED <<locationInput, flagVars, styleVars, routeStore, statusMessage,
                   tripToDelete, pendingResolves, pendingLoads, exportFile>>
    /\ lastResolve' = NoCall
    /\ UNCHANGED <<mapView, pendingReads>>
    /\ UNCHANGED <<editorVars, callVars>>

----------------------------------------------------------------------------
(* loadTrip *)

DefaultStyle == [style |-> "standard", color |-> "#4f46e5", weight |-> 4,
                 customIconUrl |-> Null, mapHeight |-> "small"]

\* x || null
OrNull(x) == IF Falsy(x) THEN Null ELSE x

\* step 4 of loadTrip taking its else branch for every trip
RestoredStyleDefaults(trip) == DefaultStyle

\* step 4 of loadTrip: the style signals after the load
RestoredStyle(trip) ==
    IF "styleConfig" \in DOMAIN trip
    THEN [style |-> trip.styleConfig.style,
          color |-> trip.styleConfig.color,
          weight |-> trip.styleConfig.weight,
          customIconUrl |-> OrNull(Get(trip.styleConfig, "customIconUrl")),
          mapHeight |-> IF "mapHeight" \in DOMAIN trip.styleConfig
                        THEN trip.styleConfig.mapHeight ELSE "small"]
    ELSE DefaultStyle

\* a loadTrip whose step 4 has no else branch
loadTripNowWithoutDefaults(trip) ==
    /\ routeCoordinates' = <<>>
    /\ isGeneratingIcon' = FALSE
    /\ isExporting' = FALSE
    /\ statusMessage' = "Loading " \o trip.name \o "..."
    /\ locationInput' = trip.locations
    /\ IF "styleConfig" \in DOMAIN trip
       THEN /\ mapStyle' = RestoredStyle(trip).style
            /\ routeColor' = RestoredStyle(trip).color
            /\ routeWeight' = RestoredStyle(trip).weight
            /\ customIconUrl' = RestoredStyle(trip).customIconUrl
            /\ mapHeight' = RestoredStyle(trip).mapHeight
       ELSE UNCHANGED styleVars
    /\ pendingLoads' = Append(pendingLoads, trip)

\* the synchronous part of loadTrip(trip): steps 2 to 4, and the timer of step 5
loadTripNow(trip) ==
    /\ routeCoordinates' = <<>>
    /\ isGeneratingIcon' = FALSE
    /\ isExporting' = FALSE
    /\ statusMessage' = "Loading " \o trip.name \o "..."
    /\ locationInput' = trip.locations
    /\ mapStyle' = RestoredStyle(trip).style
    /\ routeColor' = RestoredStyle(trip).color
    /\ routeWeight' = RestoredStyle(trip).weight
    /\ customIconUrl' = RestoredStyle(trip).customIconUrl
    /\ mapHeight' = RestoredStyle(trip).mapHeight
    /\ pendingLoads' = Append(pendingLoads, trip)

\* the user opens the i-th trip of the library
loadTrip(i) ==
    /\ i \in DOMAIN savedTrips
    /\ Len(pendingLoads) < MaxLoads
    /\ loadTripNow(savedTrips[i])
    /\ alerted' = NoAlert
    /\ lastOp' = "loadTrip"
    /\ UNCHANGED <<isLoading, missingLocations, stamps, savedTrips, tripToDelete, storage,
                   pendingResolves, exportFile, idCounter, savedFrom>>
    /\ lastResolve' = NoCall
    /\ UNCHANGED <<mapView, pendingReads>>
    /\ UNCHANGED <<editorVars, callVars>>

\* the callback of the timer of step 5; trip.coordinates.map throws when coordinates is no array
loadTripTimer ==
    /\ pendingLoads # <<>>
    /\ LET trip == Head(pendingLoads)
       IN  /\ IF IsArray(trip.coordinates)
              THEN /\ routeCoordinates' = trip.coordinates.val
                   /\ stamps' = trip.stamps.val
                   /\ missingLocations' = <<>>
                   /\ statusMessage' = "Loaded trip: " \o trip.name
              ELSE UNCHANGED <<routeStore, statusMessage>>
           /\ lastOp' = "loadTripTimer"
    /\ pendingLoads' = Tail(pendingLoads)
    /\ alerted' = NoAlert
    /\ UNCHANGED <<locationInput, flagVars, styleVars, savedTrips, tripToDelete, storage,
                   pendingResolves, exportFile, idCounter, savedFrom>>
    /\ lastResolve' = NoCall
    /\ UNCHANGED <<mapView, pendingReads>>
    /\ UNCHANGED <<editorVars, callVars>>

----------------------------------------------------------------------------
(* downloadTripData and onImportTrip *)

\* the user exports the i-th trip of the library: the file holds JSON.stringify(trip)
downloadTripData(i) ==
    /\ i \in DOMAIN savedTrips
    /\ exportFile' = [text |-> JsonTrip(savedTrips[i]), trip |-> savedTrips[i]]
    /\ alerted' = NoAlert
    /\ lastOp' = "downloadTripData"
    /\ UNCHANGED <<locationInput, flagVars, styleVars, routeStore, statusMessage, savedTrips,
                   tripToDelete, storage, pendingResolves, pendingLoads, idCounter, savedFrom>>
    /\ lastResolve' = NoCall
    /\ UNCHANGED <<mapView, pendingReads>>
    /\ UNCHANGED <<editorVars, callVars>>

\* a file whose text JSON.parse rejects
Corrupt == [corrupt |-> "{"]

FileStamp(name) ==
    [id |-> "stamp-a1", name |-> name, rotation |-> 3, color |-> colors[2],
     date |-> "2024-05-01", time |-> "09:30", selected |-> TRUE, description |-> "Sunset"]

Rome == [name |-> "Rome", lat |-> 41, lng |-> 12]

LegacyDoc ==
    [id |-> Str("7"), name |-> "Rome Trip", date |-> 0, locations |-> <<" Rome ">>,
     coordinates |-> Arr(<<Rome>>), stamps |-> Arr(<<FileStamp("Rome")>>)]

StyledDoc ==
    [id |-> Num("7"), name |-> "Rome Trip", date |-> 0, locations |-> <<" Rome ">>,
     coordinates |-> Arr(<<Rome>>), stamps |-> Arr(<<FileStamp("Rome")>>),
     styleConfig |-> [style |-> "neon", color |-> "#ff0000", weight |-> 6,
                      customIconUrl |-> Str("data:image/png;base64,AAAA")]]

NoStampsDoc == [k \in DOMAIN LegacyDoc \ {"stamps"} |-> LegacyDoc[k]]

NoCoordinatesDoc == [k \in DOMAIN LegacyDoc \ {"coordinates"} |-> LegacyDoc[k]]

NullCoordinatesDoc == [LegacyDoc EXCEPT !.coordinates = Null]

TextCoordinatesDoc ==
    [k \in DOMAIN LegacyDoc \ {"id"} |-> IF k = "coordinates" THEN Str("Rome") ELSE LegacyDoc[k]]

ObjectStampsDoc == [LegacyDoc EXCEPT !.stamps = Obj(<<>>)]

\* the JSON value true
JsTrue == [type |-> "boolean", val |-> "true"]

\* a file without an id, and one whose id is neither text nor a number
NoIdDoc == [k \in DOMAIN LegacyDoc \ {"id"} |-> LegacyDoc[k]]
FlagIdDoc == [LegacyDoc EXCEPT !.id = JsTrue]

\* the files a user may pick, besides the one just exported
ImportFiles == {LegacyDoc, StyledDoc, NoStampsDoc, NoCoordinatesDoc,
                NullCoordinatesDoc, TextCoordinatesDoc, ObjectStampsDoc, Corrupt}

\* the validation of onImportTrip: JSON.parse succeeded and the essential fields are there
PassesValidation(doc) ==
    /\ doc # Corrupt
    /\ ~Falsy(Get(doc, "coordinates"))
    /\ IsArray(Get(doc, "stamps"))

\* an import that never looks for a collision
existingNever(trip) == FALSE

\* this.savedTrips().find(t => t.id === trip.id)
existing(trip) == \E i \in DOMAIN savedTrips : Get(savedTrips[i], "id") = Get(trip, "id")

ImportFailedAlert == "Failed to import trip file. Invalid or Corrupt JSON."
NotAddedAlert == "Trip loaded! (Storage full - not added to History list)"

\* reader.onload of onImportTrip for a file holding doc
onImportTrip(doc, ok) ==
    /\ lastOp' = "onImportTrip"
    /\ IF ~PassesValidation(doc)
       THEN /\ ok
            /\ alerted' = ImportFailedAlert
            /\ UNCHANGED <<locationInput, flagVars, styleVars, routeStore, statusMessage,
                           savedTrips, storage, pendingLoads, idCounter>>
       ELSE /\ Len(savedTrips) < MaxTrips
            /\ Len(pendingLoads) < MaxLoads
            /\ existing(doc) => idCounter < MaxIds
            /\ LET trip == IF existing(doc)
                           THEN [k \in DOMAIN doc \cup {"id"} |->
                                   IF k = "id" THEN Str(generateId(idCounter + 1)) ELSE doc[k]]
                           ELSE doc
                   updated == PrependTrip(trip, savedTrips)
               IN  /\ loadTripNow(trip)
                   /\ storage' = persistTrips(updated, ok)
                   /\ savedTrips' = IF ok THEN updated ELSE savedTrips
            /\ idCounter' = IF existing(doc) THEN idCounter + 1 ELSE idCounter
            /\ alerted' = IF ok THEN NoAlert ELSE NotAddedAlert
            /\ UNCHANGED <<isLoading, missingLocations, stamps>>
    /\ UNCHANGED <<tripToDelete, pendingResolves, exportFile, savedFrom>>
    /\ lastResolve' = NoCall
    /\ UNCHANGED <<mapView, pendingReads>>
    /\ UNCHANGED <<editorVars, callVars>>

----------------------------------------------------------------------------
(* the delete flow *)

\* currentTrips.filter(t => t.id !== idToDelete)
WithoutId(trips, idToDelete) ==
    LET Keep(t) == Get(t, "id") # idToDelete IN SelectSeq(trips, Keep)

\* a request that deletes at once, without confirmation
requestDeleteTripAtOnce(i) ==
    /\ i \in DOMAIN savedTrips
    /\ tripToDelete' = Get(savedTrips[i], "id")
    /\ savedTrips' = WithoutId(savedTrips, Get(savedTrips[i], "id"))
    /\ alerted' = NoAlert
    /\ lastOp' = "requestDeleteTrip"
    /\ UNCHANGED <<locationInput, flagVars, styleVars, routeStore, statusMessage,
                   storage, pendingResolves, pendingLoads, exportFile, idCounter, savedFrom>>
    /\ lastResolve' = NoCall
    /\ UNCHANGED <<mapView, pendingReads>>
    /\ UNCHANGED <<editorVars, callVars>>

\* the user asks to delete the i-th trip of the library
requestDeleteTrip(i) ==
    /\ i \in DOMAIN savedTrips
    /\ tripToDelete' = Get(savedTrips[i], "id")
    /\ alerted' = NoAlert
    /\ lastOp' = "requestDeleteTrip"
    /\ UNCHANGED <<locationInput, flagVars, styleVars, routeStore, statusMessage, savedTrips,
                   storage, pendingResolves, pendingLoads, exportFile, idCounter, savedFrom>>
    /\ lastResolve' = NoCall
    /\ UNCHANGED <<mapView, pendingReads>>
    /\ UNCHANGED <<editorVars, callVars>>

\* a confirmation that deletes from the list in memory and leaves localStorage alone
confirmDeleteTripInMemory(ok) ==
    /\ lastOp' = "confirmDeleteTrip"
    /\ alerted' = NoAlert
    /\ IF Falsy(tripToDelete)
       THEN /\ ok
            /\ UNCHANGED <<savedTrips, storage, tripToDelete>>
       ELSE /\ savedTrips' = WithoutId(savedTrips, tripToDelete)
            /\ storage' = storage
            /\ tripToDelete' = IF ok THEN Null ELSE tripToDelete
    /\ UNCHANGED <<locationInput, flagVars, styleVars, routeStore, statusMessage,
                   pendingResolves, pendingLoads, exportFile, idCounter, savedFrom>>
    /\ lastResolve' = NoCall
    /\ UNCHANGED <<mapView, pendingReads>>
    /\ UNCHANGED <<editorVars, callVars>>

\* the user confirms the deletion
\* persistTrips is not guarded here: when setItem throws, the handler ends before the last line
confirmDeleteTrip(ok) ==
    /\ lastOp' = "confirmDeleteTrip"
    /\ alerted' = NoAlert
    /\ IF Falsy(tripToDelete)
       THEN /\ ok
            /\ UNCHANGED <<savedTrips, storage, tripToDelete>>
       ELSE /\ savedTrips' = WithoutId(savedTrips, tripToDelete)
            /\ storage' = persistTrips(WithoutId(savedTrips, tripToDelete), ok)
            /\ tripToDelete' = IF ok THEN Null ELSE tripToDelete
    /\ UNCHANGED <<locationInput, flagVars, styleVars, routeStore, statusMessage,
                   pendingResolves, pendingLoads, exportFile, idCounter, savedFrom>>
    /\ lastResolve' = NoCall
    /\ UNCHANGED <<mapView, pendingReads>>
    /\ UNCHANGED <<editorVars, callVars>>

cancelDeleteTrip ==
    /\ tripToDelete' = Null
    /\ alerted' = NoAlert
    /\ lastOp' = "cancelDeleteTrip"
    /\ UNCHANGED <<locationInput, flagVars, styleVars, routeStore, statusMessage, savedTrips,
                   storage, pendingResolves, pendingLoads, exportFile, idCounter, savedFrom>>
    /\ lastResolve' = NoCall
    /\ UNCHANGED <<mapView, pendingReads>>
    /\ UNCHANGED <<editorVars, callVars>>

----------------------------------------------------------------------------
(* the map and the effects of the constructor *)

\* the signals the style effect reads, and the ones the route effect reads: isLoading
\* is read only when there are coordinates
StyleSeen == <<mapStyle, routeColor, routeWeight, customIconUrl>>
RouteSeen == <<routeCoordinates, routeCoordinates # <<>> /\ isLoading>>

\* no map yet; both effects have run once, with the initial values of the signals;
\* rendered is what the last effect or timer drew: "map", "tiles", "path", "markers"
NoMap == [map |-> FALSE,
          polyline |-> FALSE,
          rendered |-> {},
          seenStyle |-> <<DefaultStyle.style, DefaultStyle.color, DefaultStyle.weight, Null>>,
          seenRoute |-> <<<<>>, FALSE>>,
          pendingInits |-> <<>>]

\* the signals and calls the effects leave alone: all of them
signalVars == <<locationInput, flagVars, styleVars, routeStore, statusMessage, pendingResolves,
                savedTrips, tripToDelete, storage, pendingLoads, exportFile, idCounter,
                savedFrom, editorVars, callVars, pendingReads>>

\* the first effect: it runs when routeCoordinates, or isLoading if it read it, changed
routeEffect ==
    /\ RouteSeen # mapView.seenRoute
    /\ IF routeCoordinates # <<>> /\ ~isLoading
       THEN /\ Len(mapView.pendingInits) < MaxLoads
            /\ mapView' = [mapView EXCEPT !.seenRoute = RouteSeen,
                                          !.rendered = {},
                                          !.pendingInits = Append(@, routeCoordinates)]
       ELSE mapView' = [mapView EXCEPT !.seenRoute = RouteSeen, !.rendered = {}]
    /\ alerted' = NoAlert
    /\ lastOp' = "routeEffect"
    /\ lastResolve' = NoCall
    /\ UNCHANGED signalVars

\* the timer of the first effect: initMap(coords), which returns when the page has no
\* map container
initMapTimer(hasContainer) ==
    /\ mapView.pendingInits # <<>>
    /\ LET coords == Head(mapView.pendingInits)
       IN  mapView' = IF hasContainer
                      THEN [mapView EXCEPT
                              !.map = TRUE,
                              !.polyline = Len(coords) > 1,
                              !.rendered = {"map", "tiles", "markers"}
                                              \cup (IF Len(coords) > 1 THEN {"path"} ELSE {}),
                              !.pendingInits = Tail(@)]
                      ELSE [mapView EXCEPT !.rendered = {}, !.pendingInits = Tail(@)]
    /\ alerted' = NoAlert
    /\ lastOp' = "initMapTimer"
    /\ lastResolve' = NoCall
    /\ UNCHANGED signalVars

\* the second effect: it runs when mapStyle, routeColor, routeWeight or customIconUrl
\* changed, and with a map it calls updateMapTiles, updatePolylineStyle and updateMarkers
styleEffect ==
    /\ StyleSeen # mapView.seenStyle
    /\ mapView' = [mapView EXCEPT
                     !.seenStyle = StyleSeen,
                     !.rendered = IF ~mapView.map THEN {}
                                  ELSE {"tiles", "markers"}
                                          \cup (IF mapView.polyline THEN {"path"} ELSE {})]
    /\ alerted' = NoAlert
    /\ lastOp' = "styleEffect"
    /\ lastResolve' = NoCall
    /\ UNCHANGED signalVars

----------------------------------------------------------------------------
(* the constructor: a page load *)

WithId(t, id) == [k \in DOMAIN t \cup {"id"} |-> IF k = "id" THEN id ELSE t[k]]

\* the data sanitization of loadSavedTrips; n ids were handed out so far
RECURSIVE Sanitized(_, _)
Sanitized(trips, n) ==
    IF trips = <<>> THEN <<>>
    ELSE LET t == Head(trips)
         IN  IF Falsy(Get(t, "id"))
             THEN <<WithId(t, Str(generateId(n + 1)))>> \o Sanitized(Tail(trips), n + 1)
             ELSE IF t.id.type = "number"
             THEN <<WithId(t, StringOf(t.id))>> \o Sanitized(Tail(trips), n)
             ELSE <<t>> \o Sanitized(Tail(trips), n)

NoId(t) == Falsy(Get(t, "id"))

\* ids loadSavedTrips mints for the stored list
Minted(stored) == IF stored = Null THEN 0 ELSE Len(SelectSeq(stored.val, NoId))

hasUpdates(stored) == stored # Null /\ Sanitized(stored.val, idCounter) # stored.val

ReadyStatus == "Ready to map your journey."

\* the signals as the field initializers leave them
FreshSession ==
    /\ locationInput' = <<"">>
    /\ isLoading' = FALSE
    /\ isExporting' = FALSE
    /\ isGeneratingIcon' = FALSE
    /\ mapStyle' = DefaultStyle.style
    /\ routeColor' = DefaultStyle.color
    /\ routeWeight' = DefaultStyle.weight
    /\ customIconUrl' = Null
    /\ mapHeight' = DefaultStyle.mapHeight
    /\ routeCoordinates' = <<>>
    /\ missingLocations' = <<>>
    /\ stamps' = <<>>
    /\ statusMessage' = ReadyStatus
    /\ tripToDelete' = Null

\* the page is loaded again: a new AppComponent over the same localStorage;
\* the rewrite of loadSavedTrips is inside its try, so a failed write is swallowed
constructor(ok) ==
    /\ idCounter + Minted(storage) <= MaxIds
    /\ hasUpdates(storage) \/ ok
    /\ FreshSession
    /\ savedTrips' = IF storage = Null THEN <<>> ELSE Sanitized(storage.val, idCounter)
    /\ storage' = IF hasUpdates(storage)
                  THEN persistTrips(Sanitized(storage.val, idCounter), ok)
                  ELSE storage
    /\ idCounter' = idCounter + Minted(storage)
    /\ pendingResolves' = <<>>
    /\ pendingLoads' = <<>>
    /\ alerted' = NoAlert
    /\ lastOp' = "constructor"
    /\ UNCHANGED <<exportFile, savedFrom>>
    /\ lastResolve' = NoCall
    /\ mapView' = NoMap
    /\ pendingReads' = <<>>
    /\ editingStamp' = Null
    /\ isGeneratingStamp' = FALSE
    /\ stampPrompt' = ""
    /\ pendingStamps' = <<>>
    /\ pendingIcons' = <<>>
    /\ pendingExports' = <<>>

----------------------------------------------------------------------------
(* onUploadIcon *)

\* what the file input holds: no file, a file over 5MB, an image, a file of zero
\* bytes, a file whose read fails
NoFile == [kind |-> "none", mime |-> "", data |-> ""]
LargeFile == [kind |-> "large", mime |-> "image/png", data |-> "AAAA"]
ImageFile == [kind |-> "image", mime |-> "image/png", data |-> "AAAA"]
EmptyFile == [kind |-> "empty", mime |-> "application/octet-stream", data |-> ""]
UnreadableFile == [kind |-> "unreadable", mime |-> "image/png", data |-> "AAAA"]


TooLargeAlert == "File is too large. Please upload an image under 5MB."

\* the other signals and stores, which the icon and stamp handlers leave alone
libraryVars == <<savedTrips, tripToDelete, storage, pendingLoads, exportFile, idCounter, savedFrom>>

\* the handler up to reader.readAsDataURL(file)
onUploadIcon(file) ==
    /\ lastOp' = "onUploadIcon"
    /\ IF file.kind = "none"
       THEN /\ alerted' = NoAlert
            /\ UNCHANGED <<isGeneratingIcon, statusMessage, pendingIcons>>
       ELSE IF file.kind = "large"
       THEN /\ alerted' = TooLargeAlert
            /\ UNCHANGED <<isGeneratingIcon, statusMessage, pendingIcons>>
       ELSE /\ Len(pendingIcons) < MaxResolves
            /\ alerted' = NoAlert
            /\ isGeneratingIcon' = TRUE
            /\ statusMessage' = "Designing your custom icon..."
            /\ pendingIcons' = Append(pendingIcons, [file |-> file, phase |-> "reading"])
    /\ UNCHANGED <<locationInput, isLoading, isExporting, styleVars, routeStore,
                   pendingResolves, libraryVars, editorVars, pendingStamps, pendingExports>>
    /\ lastResolve' = NoCall
    /\ UNCHANGED <<mapView, pendingReads>>

\* base64Full.match(/^data:(.+);base64,(.+)$/): both groups need a character
Matches(file) == file.mime # "" /\ file.data # ""

\* reader.onload for the k-th upload: it throws on a result that does not match, and
\* nothing catches what a callback throws; it awaits generateCustomIcon otherwise
readerOnload(k) ==
    /\ k \in DOMAIN pendingIcons
    /\ pendingIcons[k].phase = "reading"
    /\ pendingIcons[k].file.kind # "unreadable"
    /\ pendingIcons' = IF Matches(pendingIcons[k].file)
                       THEN [pendingIcons EXCEPT ![k].phase = "generating"]
                       ELSE RemoveAt(pendingIcons, k)
    /\ alerted' = NoAlert
    /\ lastOp' = "readerOnload"
    /\ UNCHANGED <<locationInput, flagVars, styleVars, routeStore, statusMessage,
                   pendingResolves, libraryVars, editorVars, pendingStamps, pendingExports>>
    /\ lastResolve' = NoCall
    /\ UNCHANGED <<mapView, pendingReads>>

\* the read of the k-th upload fails: the reader has no onerror, onload never runs
readerFails(k) ==
    /\ k \in DOMAIN pendingIcons
    /\ pendingIcons[k].phase = "reading"
    /\ pendingIcons[k].file.kind = "unreadable"
    /\ pendingIcons' = RemoveAt(pendingIcons, k)
    /\ alerted' = NoAlert
    /\ lastOp' = "readerFails"
    /\ UNCHANGED <<locationInput, flagVars, styleVars, routeStore, statusMessage,
                   pendingResolves, libraryVars, editorVars, pendingStamps, pendingExports>>
    /\ lastResolve' = NoCall
    /\ UNCHANGED <<mapView, pendingReads>>

GeneratedIcon == "data:image/jpeg;base64,ICON"

\* what generateCustomIcon resolves to: the generated icon, or the uploaded image when
\* a call of the service failed; it never rejects
generateCustomIcon(file, aiOk) ==
    IF aiOk THEN GeneratedIcon ELSE "data:" \o file.mime \o ";base64," \o file.data

\* reader.onload after generateCustomIcon resolved for the k-th upload
iconReturns(k, aiOk) ==
    /\ k \in DOMAIN pendingIcons
    /\ pendingIcons[k].phase = "generating"
    /\ customIconUrl' = Str(generateCustomIcon(pendingIcons[k].file, aiOk))
    /\ statusMessage' = "Custom icon applied!"
    /\ isGeneratingIcon' = FALSE
    /\ pendingIcons' = RemoveAt(pendingIcons, k)
    /\ alerted' = NoAlert
    /\ lastOp' = "iconReturns"
    /\ UNCHANGED <<locationInput, isLoading, isExporting, mapStyle, routeColor, routeWeight,
                   mapHeight, routeStore, pendingResolves, libraryVars, editorVars,
                   pendingStamps, pendingExports>>
    /\ lastResolve' = NoCall
    /\ UNCHANGED <<mapView, pendingReads>>

----------------------------------------------------------------------------
(* the stamp editor *)

\* { ...obj, key: v }
With(obj, key, v) == [k \in DOMAIN obj \cup {key} |-> IF k = key THEN v ELSE obj[k]]

DefaultPrompt == "Classic ink stamp"

\* the signals and calls the stamp handlers leave alone
sessionVars == <<locationInput, flagVars, styleVars, routeCoordinates, missingLocations,
                 statusMessage, pendingResolves, libraryVars>>

\* the user opens the editor on the i-th stamp: a copy of it is edited
openStampEditor(i) ==
    /\ i \in DOMAIN stamps
    /\ editingStamp' = stamps[i]
    /\ stampPrompt' = IF "description" \in DOMAIN stamps[i] /\ stamps[i].description # ""
                      THEN stamps[i].description ELSE DefaultPrompt
    /\ alerted' = NoAlert
    /\ lastOp' = "openStampEditor"
    /\ UNCHANGED <<sessionVars, stamps, isGeneratingStamp, callVars>>
    /\ lastResolve' = NoCall
    /\ UNCHANGED <<mapView, pendingReads>>

closeStampEditor ==
    /\ editingStamp' = Null
    /\ isGeneratingStamp' = FALSE
    /\ alerted' = NoAlert
    /\ lastOp' = "closeStampEditor"
    /\ UNCHANGED <<sessionVars, stamps, stampPrompt, callVars>>
    /\ lastResolve' = NoCall
    /\ UNCHANGED <<mapView, pendingReads>>

\* the user types the style of the stamp
setStampPrompt(text) ==
    /\ text # stampPrompt
    /\ stampPrompt' = text
    /\ alerted' = NoAlert
    /\ lastOp' = "setStampPrompt"
    /\ UNCHANGED <<sessionVars, stamps, editingStamp, isGeneratingStamp, callVars>>
    /\ lastResolve' = NoCall
    /\ UNCHANGED <<mapView, pendingReads>>

\* the handler up to its await: it returns at once without a stamp or a prompt
generateAiStamp ==
    /\ lastOp' = "generateAiStamp"
    /\ alerted' = NoAlert
    /\ IF editingStamp = Null \/ stampPrompt = ""
       THEN UNCHANGED <<isGeneratingStamp, pendingStamps>>
       ELSE /\ Len(pendingStamps) < MaxResolves
            /\ isGeneratingStamp' = TRUE
            /\ pendingStamps' = Append(pendingStamps, editingStamp)
    /\ UNCHANGED <<sessionVars, stamps, editingStamp, stampPrompt, pendingIcons, pendingExports>>
    /\ lastResolve' = NoCall
    /\ UNCHANGED <<mapView, pendingReads>>

GeneratedStamp == "data:image/jpeg;base64,STAMP"

\* the handler after generateStampImage resolved for the k-th call: the stamp it
\* captured before the await is put back in the editor with the image
stampImageReturns(k) ==
    /\ k \in DOMAIN pendingStamps
    /\ editingStamp' = With(With(pendingStamps[k], "imageUrl", Str(GeneratedStamp)),
                            "description", stampPrompt)
    /\ isGeneratingStamp' = FALSE
    /\ pendingStamps' = RemoveAt(pendingStamps, k)
    /\ alerted' = NoAlert
    /\ lastOp' = "stampImageReturns"
    /\ UNCHANGED <<sessionVars, stamps, stampPrompt, pendingIcons, pendingExports>>
    /\ lastResolve' = NoCall
    /\ UNCHANGED <<mapView, pendingReads>>

StampFailedAlert == "Failed to generate stamp. Quota may be exceeded."

\* a failure that also drops the image the stamp had
stampImageThrowsAndReverts(k) ==
    /\ k \in DOMAIN pendingStamps
    /\ editingStamp' = IF editingStamp = Null THEN Null
                       ELSE With(editingStamp, "imageUrl", Undefined)
    /\ isGeneratingStamp' = FALSE
    /\ pendingStamps' = RemoveAt(pendingStamps, k)
    /\ alerted' = StampFailedAlert
    /\ lastOp' = "stampImageThrows"
    /\ UNCHANGED <<sessionVars, stamps, stampPrompt, pendingIcons, pendingExports>>
    /\ lastResolve' = NoCall
    /\ UNCHANGED <<mapView, pendingReads>>

\* the handler after generateStampImage rejected for the k-th call
stampImageThrows(k) ==
    /\ k \in DOMAIN pendingStamps
    /\ isGeneratingStamp' = FALSE
    /\ pendingStamps' = RemoveAt(pendingStamps, k)
    /\ alerted' = StampFailedAlert
    /\ lastOp' = "stampImageThrows"
    /\ UNCHANGED <<sessionVars, stamps, editingStamp, stampPrompt, pendingIcons, pendingExports>>
    /\ lastResolve' = NoCall
    /\ UNCHANGED <<mapView, pendingReads>>

\* list.map(s => s.id === edited.id ? edited : s)
Replaced(list, edited) == [i \in DOMAIN list |-> IF list[i].id = edited.id THEN edited ELSE list[i]]

saveStampChanges ==
    /\ lastOp' = "saveStampChanges"
    /\ alerted' = NoAlert
    /\ IF editingStamp = Null
       THEN UNCHANGED <<stamps, editingStamp, isGeneratingStamp>>
       ELSE /\ stamps' = Replaced(stamps, editingStamp)
            /\ editingStamp' = Null
            /\ isGeneratingStamp' = FALSE
    /\ UNCHANGED <<sessionVars, stampPrompt, callVars>>
    /\ lastResolve' = NoCall
    /\ UNCHANGED <<mapView, pendingReads>>

revertStampStyle ==
    /\ lastOp' = "revertStampStyle"
    /\ alerted' = NoAlert
    /\ editingStamp' = IF editingStamp = Null THEN Null
                       ELSE With(editingStamp, "imageUrl", Undefined)
    /\ UNCHANGED <<sessionVars, stamps, isGeneratingStamp, stampPrompt, callVars>>
    /\ lastResolve' = NoCall
    /\ UNCHANGED <<mapView, pendingReads>>

\* the handler up to reader.readAsDataURL(file)
onUploadStampImage(file) ==
    /\ lastOp' = "onUploadStampImage"
    /\ alerted' = NoAlert
    /\ IF file.kind = "none"
       THEN UNCHANGED pendingReads
       ELSE /\ Len(pendingReads) < MaxResolves
            /\ pendingReads' = Append(pendingReads, file)
    /\ UNCHANGED <<sessionVars, stamps, editorVars, callVars>>
    /\ lastResolve' = NoCall
    /\ UNCHANGED mapView

\* reader.onload of the k-th read: the stamp in the editor at that time gets the image,
\* and nothing happens when the editor is closed
stampReaderOnload(k) ==
    /\ k \in DOMAIN pendingReads
    /\ pendingReads[k].kind # "unreadable"
    /\ editingStamp' = IF editingStamp = Null THEN Null
                       ELSE With(editingStamp, "imageUrl",
                                 Str("data:" \o pendingReads[k].mime \o ";base64,"
                                        \o pendingReads[k].data))
    /\ pendingReads' = RemoveAt(pendingReads, k)
    /\ alerted' = NoAlert
    /\ lastOp' = "stampReaderOnload"
    /\ UNCHANGED <<sessionVars, stamps, isGeneratingStamp, stampPrompt, callVars>>
    /\ lastResolve' = NoCall
    /\ UNCHANGED mapView

\* the k-th read fails: the reader has no onerror, onload never runs
stampReaderFails(k) ==
    /\ k \in DOMAIN pendingReads
    /\ pendingReads[k].kind = "unreadable"
    /\ pendingReads' = RemoveAt(pendingReads, k)
    /\ alerted' = NoAlert
    /\ lastOp' = "stampReaderFails"
    /\ UNCHANGED <<sessionVars, stamps, editorVars, callVars>>
    /\ lastResolve' = NoCall
    /\ UNCHANGED mapView

----------------------------------------------------------------------------
(* stamp selection and downloadSelectedStamps *)

\* list.map(s => s.id === id ? { ...s, selected: !s.selected } : s)
Toggled(list, id) ==
    [i \in DOMAIN list |-> IF list[i].id = id THEN With(list[i], "selected", ~list[i].selected)
                           ELSE list[i]]

\* a toggle that writes into the stamp object, with the saved trips holding the same object
toggleStampSelectionInPlace(i) ==
    /\ i \in DOMAIN stamps
    /\ stamps' = Toggled(stamps, stamps[i].id)
    /\ savedTrips' = [t \in DOMAIN savedTrips |->
                        IF IsArray(Get(savedTrips[t], "stamps"))
                        THEN [savedTrips[t] EXCEPT
                                !.stamps = Arr(Toggled(savedTrips[t].stamps.val, stamps[i].id))]
                        ELSE savedTrips[t]]
    /\ alerted' = NoAlert
    /\ lastOp' = "toggleStampSelection"
    /\ UNCHANGED <<locationInput, flagVars, styleVars, routeCoordinates, missingLocations,
                   statusMessage, pendingResolves, tripToDelete, storage, pendingLoads,
                   exportFile, idCounter, savedFrom, editorVars, callVars>>
    /\ lastResolve' = NoCall
    /\ UNCHANGED <<mapView, pendingReads>>

toggleStampSelection(i) ==
    /\ i \in DOMAIN stamps
    /\ stamps' = Toggled(stamps, stamps[i].id)
    /\ alerted' = NoAlert
    /\ lastOp' = "toggleStampSelection"
    /\ UNCHANGED <<sessionVars, editorVars, callVars>>
    /\ lastResolve' = NoCall
    /\ UNCHANGED <<mapView, pendingReads>>

allStampsSelected == Len(stamps) > 0 /\ \A i \in DOMAIN stamps : stamps[i].selected

toggleAllStamps ==
    /\ stamps' = [i \in DOMAIN stamps |-> With(stamps[i], "selected", ~allStampsSelected)]
    /\ alerted' = NoAlert
    /\ lastOp' = "toggleAllStamps"
    /\ UNCHANGED <<sessionVars, editorVars, callVars>>
    /\ lastResolve' = NoCall
    /\ UNCHANGED <<mapView, pendingReads>>

IsSelected(s) == s.selected

NoneSelectedAlert == "Please select at least one stamp to download."

\* the handler up to its first await of html2canvas: one capture for each selected stamp
downloadSelectedStamps ==
    /\ lastOp' = "downloadSelectedStamps"
    /\ IF SelectSeq(stamps, IsSelected) = <<>>
       THEN /\ alerted' = NoneSelectedAlert
            /\ UNCHANGED <<isExporting, pendingExports>>
       ELSE /\ Len(pendingExports) < MaxResolves
            /\ alerted' = NoAlert
            /\ isExporting' = TRUE
            /\ pendingExports' = Append(pendingExports, Len(SelectSeq(stamps, IsSelected)))
    /\ UNCHANGED <<locationInput, isLoading, isGeneratingIcon, styleVars, routeStore,
                   statusMessage, pendingResolves, libraryVars, editorVars,
                   pendingStamps, pendingIcons>>
    /\ lastResolve' = NoCall
    /\ UNCHANGED <<mapView, pendingReads>>

\* html2canvas resolved for the j-th run: the next stamp is captured, or the run ends
canvasReturns(j) ==
    /\ j \in DOMAIN pendingExports
    /\ IF pendingExports[j] > 1
       THEN /\ pendingExports' = [pendingExports EXCEPT ![j] = @ - 1]
            /\ UNCHANGED isExporting
       ELSE /\ pendingExports' = RemoveAt(pendingExports, j)
            /\ isExporting' = FALSE
    /\ alerted' = NoAlert
    /\ lastOp' = "canvasReturns"
    /\ UNCHANGED <<locationInput, isLoading, isGeneratingIcon, styleVars, routeStore,
                   statusMessage, pendingResolves, libraryVars, editorVars,
                   pendingStamps, pendingIcons>>
    /\ lastResolve' = NoCall
    /\ UNCHANGED <<mapView, pendingReads>>

DownloadFailedAlert == "Failed to download some stamps."

\* html2canvas rejected for the j-th run
canvasThrows(j) ==
    /\ j \in DOMAIN pendingExports
    /\ pendingExports' = RemoveAt(pendingExports, j)
    /\ isExporting' = FALSE
    /\ alerted' = DownloadFailedAlert
    /\ lastOp' = "canvasThrows"
    /\ UNCHANGED <<locationInput, isLoading, isGeneratingIcon, styleVars, routeStore,
                   statusMessage, pendingResolves, libraryVars, editorVars,
                   pendingStamps, pendingIcons>>
    /\ lastResolve' = NoCall
    /\ UNCHANGED <<mapView, pendingReads>>

----------------------------------------------------------------------------
(* the specification *)

Init ==
    /\ locationInput = <<"">>
    /\ isLoading = FALSE
    /\ isExporting = FALSE
    /\ isGeneratingIcon = FALSE
    /\ mapStyle = DefaultStyle.style
    /\ routeColor = DefaultStyle.color
    /\ routeWeight = DefaultStyle.weight
    /\ customIconUrl = Null
    /\ mapHeight = DefaultStyle.mapHeight
    /\ routeCoordinates = <<>>
    /\ missingLocations = <<>>
    /\ stamps = <<>>
    /\ statusMessage = ReadyStatus
    /\ savedTrips = <<>>
    /\ tripToDelete = Null
    /\ storage = Null
    /\ pendingResolves = <<>>
    /\ pendingLoads = <<>>
    /\ exportFile = Null
    /\ idCounter = 0
    /\ alerted = NoAlert
    /\ lastOp = "constructor"
    /\ savedFrom = <<>>
    /\ lastResolve = NoCall
    /\ editingStamp = Null
    /\ isGeneratingStamp = FALSE
    /\ stampPrompt = ""
    /\ pendingStamps = <<>>
    /\ pendingIcons = <<>>
    /\ pendingExports = <<>>
    /\ mapView = NoMap
    /\ pendingReads = <<>>

\* route generation alone, over every text and every resolver response of the bounds
NextRoute ==
    \/ \E raw \in {<<" ">>, <<"Paris">>, <<"Paris", " Rome ">>, <<" Rome ", "">>} : SetLocationInput(raw)
    \/ CallsLeft /\ OnGenerateRoute
    \/ \E k \in DOMAIN pendingResolves, rawCoords \in Responses :
          \E rot \in [1..Len(ValidCoords(rawCoords, 1)) -> Rotations] :
             IdsLeft(rawCoords) /\ ResolverReturns(k, rawCoords, rot)
    \/ \E k \in DOMAIN pendingResolves, error \in ResolverErrors : ResolverThrows(k, error)

SpecRoute == Init /\ [][NextRoute]_vars

MaxRequests == 2    \* route requests issued before the first response arrives

\* request A, then request B and the ones after it, as the resolver is called with them
RequestOrder == SubSeq(<<<<"Paris">>, <<"Rome">>, <<"Paris", "Rome">>, <<"Rome", "Paris">>>>,
                       1, MaxRequests)
RomePoint == [name |-> "Rome", lat |-> <<41>>, lng |-> <<12>>]

\* no response was processed so far
NoneAnswered == statusMessage \in {ReadyStatus, "Tracing your route on the globe..."}

\* the next request of RequestOrder is the text of the input box
NextInOrder ==
    /\ NoneAnswered
    /\ Len(pendingResolves) < Len(RequestOrder)
    /\ pendingResolves = SubSeq(RequestOrder, 1, Len(pendingResolves))
    /\ ParseLocations(locationInput) = RequestOrder[Len(pendingResolves) + 1]

\* the responses start once every request of RequestOrder is in flight
AllInFlight == pendingResolves = RequestOrder \/ ~NoneAnswered

\* two requests in flight, answered in either order
NextOverlap ==
    \/ \E raw \in {<<"Paris">>, <<" Rome ">>, <<"Paris", " Rome ">>, <<" Rome ", "Paris">>} :
          SetLocationInput(raw)
    \/ NextInOrder /\ OnGenerateRoute
    \/ \E k \in DOMAIN pendingResolves, rawCoords \in {<<ParisPoint>>, <<RomePoint>>, <<AtlantisPoint>>} :
          \E rot \in [1..Len(ValidCoords(rawCoords, 1)) -> Rotations] :
             AllInFlight /\ IdsLeft(rawCoords) /\ ResolverReturns(k, rawCoords, rot)
    \/ \E k \in DOMAIN pendingResolves, error \in ResolverErrors :
          AllInFlight /\ ResolverThrows(k, error)

SpecOverlap == Init /\ [][NextOverlap]_vars

\* the text and the resolver response the trip library is explored with
LibraryInputs == {<<"Paris", " Rome ">>}
LibraryResponses == {<<ParisPoint, AtlantisPoint>>}

\* the trip library, with one route request at a time
Next ==
    \/ \E raw \in LibraryInputs : SetLocationInput(raw)
    \/ pendingResolves = <<>> /\ OnGenerateRoute
    \/ \E k \in DOMAIN pendingResolves, rawCoords \in LibraryResponses :
          \E rot \in [1..Len(ValidCoords(rawCoords, 1)) -> Rotations] :
             IdsLeft(rawCoords) /\ ResolverReturns(k, rawCoords, rot)
    \/ \E ok \in BOOLEAN : saveTrip(ok)
    \/ \E i \in DOMAIN savedTrips : loadTrip(i)
    \/ loadTripTimer
    \/ \E i \in DOMAIN savedTrips : requestDeleteTrip(i)
    \/ \E ok \in BOOLEAN : confirmDeleteTrip(ok)
    \/ cancelDeleteTrip
    \/ \E ok \in BOOLEAN : constructor(ok)

Spec == Init /\ [][Next]_vars

\* the styles the user picks in the save and load round trip
MapStyles == {"standard", "vintage"}

\* saving one trip and loading it back; the imported file brings a color, a weight and an icon
NextRoundTrip ==
    \/ \E raw \in LibraryInputs : SetLocationInput(raw)
    \/ pendingResolves = <<>> /\ OnGenerateRoute
    \/ \E k \in DOMAIN pendingResolves, rawCoords \in LibraryResponses :
          \E rot \in [1..Len(ValidCoords(rawCoords, 1)) -> Rotations] :
             IdsLeft(rawCoords) /\ ResolverReturns(k, rawCoords, rot)
    \/ \E style \in MapStyles : setMapStyle(style)
    \/ \E height \in {"small", "large"} : setMapHeight(height)
    \/ savedTrips = <<>> /\ onImportTrip(StyledDoc, TRUE)
    \/ savedFrom = <<>> /\ saveTrip(TRUE)
    \/ \E i \in DOMAIN savedTrips : loadTrip(i)
    \/ loadTripTimer

SpecRoundTrip == Init /\ [][NextRoundTrip]_vars

\* export and import of trip files
NextExchange ==
    \/ \E i \in DOMAIN savedTrips : downloadTripData(i)
    \/ \E doc \in {LegacyDoc, NoStampsDoc} \cup (IF exportFile = Null THEN {} ELSE {exportFile.text}),
          ok \in BOOLEAN : onImportTrip(doc, ok)
    \/ loadTripTimer
    \/ \E i \in DOMAIN savedTrips : requestDeleteTrip(i)
    \/ confirmDeleteTrip(TRUE)

SpecExchange == Init /\ [][NextExchange]_vars

\* the active trip edited next to the one trip of the library, which it was saved as
\* or loaded from
NextShare ==
    \/ \E raw \in LibraryInputs : SetLocationInput(raw)
    \/ pendingResolves = <<>> /\ OnGenerateRoute
    \/ \E k \in DOMAIN pendingResolves, rawCoords \in LibraryResponses :
          \E rot \in [1..Len(ValidCoords(rawCoords, 1)) -> Rotations] :
             IdsLeft(rawCoords) /\ ResolverReturns(k, rawCoords, rot)
    \/ \E style \in MapStyles : setMapStyle(style)
    \/ savedTrips = <<>> /\ saveTrip(TRUE)
    \/ savedTrips = <<>> /\ \E doc \in {LegacyDoc, StyledDoc} : onImportTrip(doc, TRUE)
    \/ pendingLoads = <<>> /\ \E i \in DOMAIN savedTrips : loadTrip(i)
    \/ loadTripTimer
    \/ \E i \in DOMAIN stamps : toggleStampSelection(i)
    \/ toggleAllStamps
    \/ \E i \in DOMAIN stamps : openStampEditor(i)
    \/ revertStampStyle
    \/ saveStampChanges
    \/ closeStampEditor

SpecShare == Init /\ [][NextShare]_vars

\* the map drawn for a route, and its style changed
NextMap ==
    \/ \E raw \in LibraryInputs : SetLocationInput(raw)
    \/ pendingResolves = <<>> /\ OnGenerateRoute
    \/ \E k \in DOMAIN pendingResolves, rawCoords \in {<<ParisPoint>>, <<ParisPoint, RomePoint>>} :
          \E rot \in [1..Len(ValidCoords(rawCoords, 1)) -> Rotations] :
             IdsLeft(rawCoords) /\ ResolverReturns(k, rawCoords, rot)
    \/ \E style \in MapStyles : setMapStyle(style)
    \/ routeEffect
    \/ \E hasContainer \in BOOLEAN : initMapTimer(hasContainer)
    \/ styleEffect

SpecMap == Init /\ [][NextMap]_vars

\* the import of trip files, well formed or not
NextImport ==
    \/ \E doc \in ImportFiles, ok \in BOOLEAN : onImportTrip(doc, ok)
    \/ loadTripTimer

SpecImport == Init /\ [][NextImport]_vars

\* the upload of a custom icon, between route requests
NextIcon ==
    \/ \E raw \in LibraryInputs : SetLocationInput(raw)
    \/ CallsLeft /\ OnGenerateRoute
    \/ \E k \in DOMAIN pendingResolves, rawCoords \in LibraryResponses :
          \E rot \in [1..Len(ValidCoords(rawCoords, 1)) -> Rotations] :
             IdsLeft(rawCoords) /\ ResolverReturns(k, rawCoords, rot)
    \/ \E file \in {NoFile, LargeFile, ImageFile, EmptyFile, UnreadableFile} : onUploadIcon(file)
    \/ \E k \in DOMAIN pendingIcons : readerOnload(k)
    \/ \E k \in DOMAIN pendingIcons : readerFails(k)
    \/ \E k \in DOMAIN pendingIcons, aiOk \in BOOLEAN : iconReturns(k, aiOk)

SpecIcon == Init /\ [][NextIcon]_vars

MaxStamps == 6      \* places of the longest route the stamps are made for

\* the i-th place of a long route
Place(i) == [name |-> "Place " \o ToString(i), lat |-> <<i>>, lng |-> <<i>>]

\* the first route of a session, up to MaxStamps places long
NextStamps ==
    \/ \E raw \in LibraryInputs : SetLocationInput(raw)
    \/ idCounter = 0 /\ CallsLeft /\ OnGenerateRoute
    \* responses of 1 to MaxStamps places, and the same with an entry at (0,0) in front;
    \* Math.floor(Math.random() * 30) - 15 at its least and its greatest
    \/ \E k \in DOMAIN pendingResolves,
          rawCoords \in {[i \in 1..n |-> Place(i)] : n \in 1..MaxStamps}
                         \cup {<<NullIslandPoint>> \o [i \in 1..n |-> Place(i)] :
                                  n \in 1..MaxStamps} :
          \E rot \in [1..Len(ValidCoords(rawCoords, 1)) -> {0 - 15, 29 - 15}] :
             idCounter = 0 /\ ResolverReturns(k, rawCoords, rot)

SpecStamps == Init /\ [][NextStamps]_vars

\* a route of two places, so that a download captures more than one stamp
BusyResponses == {<<ParisPoint, Place(2)>>}

\* the awaited call of a route request returns or throws
ResolveSettles ==
    \E k \in DOMAIN pendingResolves :
       \/ \E rawCoords \in BusyResponses :
             \E rot \in [1..Len(ValidCoords(rawCoords, 1)) -> Rotations] :
                IdsLeft(rawCoords) /\ ResolverReturns(k, rawCoords, rot)
       \/ \E error \in ResolverErrors : ResolverThrows(k, error)

\* the awaited call of a stamp generation returns or throws
StampSettles == \E k \in DOMAIN pendingStamps : stampImageReturns(k) \/ stampImageThrows(k)

\* the awaited capture of a download returns or throws
CanvasSettles == \E j \in DOMAIN pendingExports : canvasReturns(j) \/ canvasThrows(j)

\* the handlers that raise a busy flag, each with one call at a time
NextBusy ==
    \/ \E raw \in LibraryInputs : SetLocationInput(raw)
    \/ idCounter = 0 /\ pendingResolves = <<>> /\ OnGenerateRoute
    \/ ResolveSettles
    \/ \E i \in DOMAIN stamps : openStampEditor(i)
    \/ \E text \in {"", "neon"} : setStampPrompt(text)
    \/ pendingStamps = <<>> /\ generateAiStamp
    \/ StampSettles
    \/ toggleAllStamps
    \/ pendingExports = <<>> /\ downloadSelectedStamps
    \/ CanvasSettles

\* the stamp editor over a route of two places, with one generation and one file read
\* at a time
NextEditor ==
    \/ \E raw \in LibraryInputs : SetLocationInput(raw)
    \/ idCounter = 0 /\ pendingResolves = <<>> /\ OnGenerateRoute
    \/ \E k \in DOMAIN pendingResolves, rawCoords \in BusyResponses :
          \E rot \in [1..Len(ValidCoords(rawCoords, 1)) -> Rotations] :
             IdsLeft(rawCoords) /\ ResolverReturns(k, rawCoords, rot)
    \/ \E i \in DOMAIN stamps : openStampEditor(i)
    \/ closeStampEditor
    \/ saveStampChanges
    \/ pendingStamps = <<>> /\ generateAiStamp
    \/ StampSettles
    \/ pendingReads = <<>> /\ \E file \in {NoFile, ImageFile, UnreadableFile} : onUploadStampImage(file)
    \/ \E k \in DOMAIN pendingReads : stampReaderOnload(k)
    \/ \E k \in DOMAIN pendingReads : stampReaderFails(k)

SpecEditor == Init /\ [][NextEditor]_vars

\* every awaited call returns or throws in the end
SpecBusy ==
    /\ Init
    /\ [][NextBusy]_vars
    /\ WF_vars(ResolveSettles)
    /\ WF_vars(StampSettles)
    /\ WF_vars(CanvasSettles)

\* the library filled from trip files, and the page loaded again with the storage writable
NextStartup ==
    \/ \E doc \in {LegacyDoc, StyledDoc, NoIdDoc, FlagIdDoc}, ok \in BOOLEAN : onImportTrip(doc, ok)
    \/ loadTripTimer
    \/ constructor(TRUE)

SpecStartup == Init /\ [][NextStartup]_vars

\* the ids of the library over page loads
NextIds ==
    \/ \E doc \in {LegacyDoc, StyledDoc}, ok \in BOOLEAN : onImportTrip(doc, ok)
    \/ loadTripTimer
    \/ \E ok \in BOOLEAN : saveTrip(ok)
    \/ \E i \in DOMAIN savedTrips : requestDeleteTrip(i)
    \/ \E ok \in BOOLEAN : confirmDeleteTrip(ok)
    \/ \E ok \in BOOLEAN : constructor(ok)

SpecIds == Init /\ [][NextIds]_vars

\* the library over saves, imports, deletions and page loads, every write of localStorage
\* succeeding
NextDurable ==
    \/ \E doc \in {LegacyDoc, NoIdDoc} : onImportTrip(doc, TRUE)
    \/ loadTripTimer
    \/ saveTrip(TRUE)
    \/ \E i \in DOMAIN savedTrips : requestDeleteTrip(i)
    \/ cancelDeleteTrip
    \/ confirmDeleteTrip(TRUE)
    \/ constructor(TRUE)

SpecDurable == Init /\ [][NextDurable]_vars

----------------------------------------------------------------------------
(* Properties of route generation, under SpecRoute *)

RECURSIVE IsSubsequence(_, _)
IsSubsequence(a, b) ==
    IF a = <<>> THEN TRUE
    ELSE IF b = <<>> THEN FALSE
    ELSE IF Head(a) = Head(b) THEN IsSubsequence(Tail(a), Tail(b))
    ELSE IsSubsequence(a, Tail(b))

NamesOf(coords) == [i \in DOMAIN coords |-> coords[i].name]

\* the names of the result as onGenerateRoute lists them when missing
CallLocations == lastResolve.locations[1]

ResultNames(call) ==
    [i \in DOMAIN call.rawCoords |-> MissingName(call.rawCoords[i], CallLocations, i)]

\* C3: when onGenerateRoute completes, the resolved coordinates and the missing
\* locations partition the input names: their lengths add up to the number of
\* input names, and each list keeps the order of the input.
C3_PartitionOfInput ==
    lastOp = "resolverReturns" =>
       /\ Len(routeCoordinates) + Len(missingLocations) = Len(CallLocations)
       /\ IsSubsequence(NamesOf(routeCoordinates), NamesOf(lastResolve.rawCoords))
       /\ IsSubsequence(missingLocations, ResultNames(lastResolve))

IsZeroZero(item) == item.lat = <<0>> /\ item.lng = <<0>>

\* C4: a resolver entry with lat = 0 and lng = 0 is put in missingLocations, and the
\* routeCoordinates that onGenerateRoute sets hold no coordinate equal to (0,0).
C4_ZeroZeroIsMissing ==
    /\ lastOp = "resolverReturns" =>
          \A i \in DOMAIN lastResolve.rawCoords :
             IsZeroZero(lastResolve.rawCoords[i]) =>
                /\ ResultNames(lastResolve)[i] \in Range(missingLocations)
                /\ Len(missingLocations) >=
                      Cardinality({j \in DOMAIN lastResolve.rawCoords :
                                      IsZeroZero(lastResolve.rawCoords[j])})
    /\ \A c \in Range(routeCoordinates) : ~(c.lat = 0 /\ c.lng = 0)

C4_Witness ==
    /\ lastOp = "resolverReturns"
    /\ "Null Island" \in Range(missingLocations)
    /\ routeCoordinates # <<>>

----------------------------------------------------------------------------
(* Properties of saving and loading, under SpecRoundTrip *)

\* the timer of a loadTrip fires right after that loadTrip
DirectLoad == loadTripTimer /\ lastOp = "loadTrip" /\ Len(pendingLoads) = 1

MadeBySave(trip) ==
    /\ Get(trip, "id").type = "string"
    /\ Get(trip, "id").val \in DOMAIN savedFrom

SavedState(trip) == savedFrom[trip.id.val]

----------------------------------------------------------------------------
(* Properties of the trip library, under Spec *)

\* what localStorage holds is the JSON of trips
DurableIs(trips) ==
    /\ storage' # Null
    /\ storage'.val = JsonTrips(trips)

\* C9: saveTrip with a non-empty route puts the new trip first in the saved list and
\* keeps the previous trips after it, whether or not the write succeeds; after a
\* successful write localStorage holds the new list, after a failed one localStorage
\* is unchanged and the storage-full alert replaces the success alert.
C9_SavePrepends ==
    [][\A ok \in BOOLEAN :
          (saveTrip(ok) /\ routeCoordinates # <<>>) =>
             /\ savedTrips' # <<>>
             /\ Tail(savedTrips') = savedTrips
             /\ Head(savedTrips').coordinates = Arr(routeCoordinates)
             /\ Head(savedTrips').stamps = Arr(stamps)
             /\ ok => (DurableIs(savedTrips') /\ alerted' = SavedAlert)
             /\ ~ok => (storage' = storage /\ alerted' = StorageFullAlert)]_vars

C9_Witness ==
    /\ lastOp = "saveTrip"
    /\ alerted = StorageFullAlert
    /\ Len(savedTrips) = 2
    /\ storage # Null
    /\ storage.val = JsonTrips(Tail(savedTrips))

HasId(trips, id) == \E i \in DOMAIN trips : Get(trips[i], "id") = id

\* the trips localStorage holds; none before the first write
DurableTrips(stored) == IF stored = Null THEN <<>> ELSE stored.val

\* C5: confirmDeleteTrip with a pending id p leaves no trip with id p in the saved list
\* nor in localStorage, keeps every other trip in its order in both, and clears the
\* pending id.
C5_ConfirmDeletes ==
    [][\A ok \in BOOLEAN :
          (confirmDeleteTrip(ok) /\ ~Falsy(tripToDelete)) =>
             /\ ~HasId(savedTrips', tripToDelete)
             /\ savedTrips' = WithoutId(savedTrips, tripToDelete)
             /\ ~HasId(DurableTrips(storage'), tripToDelete)
             /\ IsSubsequence(WithoutId(DurableTrips(storage), tripToDelete),
                              DurableTrips(storage'))
             /\ tripToDelete' = Null]_vars

\* the step is a delete request, a cancel, or a confirm with nothing pending
NoDeleteStep ==
    \/ \E i \in DOMAIN savedTrips : requestDeleteTrip(i)
    \/ cancelDeleteTrip
    \/ Falsy(tripToDelete) /\ \E ok \in BOOLEAN : confirmDeleteTrip(ok)

IdsOf(trips) == {Get(trips[i], "id") : i \in DOMAIN trips}

\* C6: requestDeleteTrip, cancelDeleteTrip and a confirmDeleteTrip with no pending id
\* leave the saved list, localStorage and the Route Store as they are and change at
\* most the pending id (cancel sets it to none, the empty confirm keeps it); a handler
\* that takes a trip out of the saved list is a confirmDeleteTrip with a pending id.
C6_NoDeleteWithoutRequest ==
    [][/\ NoDeleteStep =>
             /\ UNCHANGED <<savedTrips, storage, routeStore, styleVars, locationInput,
                            flagVars, statusMessage, pendingLoads, pendingResolves>>
             /\ lastOp' = "cancelDeleteTrip" => tripToDelete' = Null
             /\ lastOp' = "confirmDeleteTrip" => tripToDelete' = tripToDelete
             /\ lastOp' = "requestDeleteTrip" => tripToDelete' \in IdsOf(savedTrips)
       /\ (lastOp' # "constructor" /\ ~(IdsOf(savedTrips) \subseteq IdsOf(savedTrips'))) =>
             /\ lastOp' = "confirmDeleteTrip"
             /\ ~Falsy(tripToDelete)
             /\ IdsOf(savedTrips) \ IdsOf(savedTrips') = {tripToDelete}]_vars

C6_Witness ==
    /\ lastOp = "cancelDeleteTrip"
    /\ tripToDelete = Null
    /\ Len(savedTrips) = 2
    /\ routeCoordinates # <<>>

----------------------------------------------------------------------------
(* Properties of export and import, under SpecExchange and SpecImport *)

\* the same fields with the same values, but for id
SameButId(x, t) ==
    /\ DOMAIN JsonTrip(x) \ {"id"} = DOMAIN JsonTrip(t) \ {"id"}
    /\ \A k \in DOMAIN JsonTrip(t) \ {"id"} : JsonTrip(x)[k] = JsonTrip(t)[k]

\* the saved list gained x, a copy of t, at its head
GainedCopy(t) ==
    /\ savedTrips' # <<>>
    /\ Tail(savedTrips') = savedTrips
    /\ JsonTrip(Head(savedTrips')).coordinates = JsonTrip(t).coordinates
    /\ JsonTrip(Head(savedTrips')).stamps = JsonTrip(t).stamps
    /\ SameButId(Head(savedTrips'), t)
    /\ Get(Head(savedTrips'), "id") # Get(t, "id") <=> HasId(savedTrips, Get(t, "id"))

\* C2: importing the file that downloadTripData wrote for a trip t puts at the head of
\* the saved list a trip with t's coordinates and stamps; only the id may differ, and
\* it differs exactly when the saved list holds a trip with t's id at the import.
C2_ExportImport ==
    [][\A ok \in BOOLEAN :
          (exportFile # Null /\ onImportTrip(exportFile.text, ok)) =>
             GainedCopy(exportFile.trip)]_vars

\* C2, amended: the same, provided the write to localStorage succeeds; when it fails
\* the saved list is left as it was.
C2_ExportImportWritten ==
    [][\A ok \in BOOLEAN :
          (exportFile # Null /\ onImportTrip(exportFile.text, ok)) =>
             IF ok THEN GainedCopy(exportFile.trip) ELSE savedTrips' = savedTrips]_vars

C2_Witness ==
    /\ lastOp = "onImportTrip"
    /\ alerted = NoAlert
    /\ exportFile # Null
    /\ Len(savedTrips) = 2
    /\ JsonTrip(savedTrips[1]).stamps = JsonTrip(exportFile.trip).stamps
    /\ Get(savedTrips[2], "id") = Get(exportFile.trip, "id")
    /\ Get(savedTrips[1], "id") # Get(exportFile.trip, "id")

\* coordinates or stamps is absent or is no sequence
Malformed(doc) == ~IsArray(Get(doc, "coordinates")) \/ ~IsArray(Get(doc, "stamps"))

\* C7: an import of a document whose coordinates or stamps is absent or is no sequence
\* raises the format alert and changes neither the saved list, nor localStorage, nor
\* the Route Store, nor the StyleConfig.
C7_MalformedRejected ==
    [][\A doc \in ImportFiles, ok \in BOOLEAN :
          (Malformed(doc) /\ onImportTrip(doc, ok)) =>
             /\ alerted' = ImportFailedAlert
             /\ UNCHANGED <<savedTrips, storage, routeStore, styleVars>>]_vars

\* C10: an import of a document with a coordinates sequence and a stamps sequence
\* starts the load of the trip; when the write fails neither the saved list nor
\* localStorage gains the trip and the warning is raised; when it succeeds the trip
\* is at the head of both; the timer of the load then puts the trip's coordinates
\* and stamps in the Route Store.
C10_ImportWriteFailure ==
    [][/\ \A doc \in ImportFiles, ok \in BOOLEAN :
             (~Malformed(doc) /\ onImportTrip(doc, ok)) =>
                LET trip == pendingLoads'[Len(pendingLoads')]
                IN  /\ pendingLoads' = Append(pendingLoads, trip)
                    /\ trip.coordinates = doc.coordinates
                    /\ trip.stamps = doc.stamps
                    /\ ok => /\ savedTrips' = <<trip>> \o savedTrips
                             /\ storage' # Null
                             /\ Len(storage'.val) = Len(savedTrips')
                             /\ Head(storage'.val) = JsonTrip(trip)
                             /\ alerted' = NoAlert
                    /\ ~ok => /\ savedTrips' = savedTrips
                              /\ storage' = storage
                              /\ alerted' = NotAddedAlert
       /\ (loadTripTimer /\ ~Malformed(Head(pendingLoads))) =>
             /\ routeCoordinates' = Head(pendingLoads).coordinates.val
             /\ stamps' = Head(pendingLoads).stamps.val]_vars

C10_Witness ==
    /\ lastOp = "loadTripTimer"
    /\ routeCoordinates = <<Rome>>
    /\ stamps = <<FileStamp("Rome")>>
    /\ savedTrips = <<>>
    /\ storage = Null

----------------------------------------------------------------------------
(* Properties of the trip ids, under SpecIds *)

\* C8: no two trips of the saved list share an id, after the startup load and after
\* any saveTrip, onImportTrip and confirmDeleteTrip.
C8_UniqueIds ==
    \A i, j \in DOMAIN savedTrips :
       i # j => Get(savedTrips[i], "id") # Get(savedTrips[j], "id")

----------------------------------------------------------------------------
(* Properties of a failed resolver call, under SpecRoute *)

\* C13: when the resolver call of onGenerateRoute fails, the handler sets the 'try
\* again later' status for a quota or rate-limit failure and the connectivity status
\* for any other, makes no further resolver call, raises no alert, resets isLoading,
\* and leaves the Route Store as it is: empty, when no response was processed since
\* the request (the status is still the one the request set).
C13_ResolverFailure ==
    [][\A k \in DOMAIN pendingResolves, error \in ResolverErrors :
          ResolverThrows(k, error) =>
             /\ statusMessage' =
                   IF error \in {QuotaError, RateLimitError}
                   THEN "AI Quota Exceeded. Please try again later."
                   ELSE "Something went wrong. Please check your internet connection."
             /\ Len(pendingResolves') = Len(pendingResolves) - 1
             /\ ~isLoading'
             /\ alerted' = NoAlert
             /\ UNCHANGED routeStore
             /\ statusMessage = "Tracing your route on the globe..." =>
                   (routeCoordinates' = <<>> /\ missingLocations' = <<>> /\ stamps' = <<>>)]_vars

C13_Witness ==
    /\ lastOp = "resolverThrows"
    /\ statusMessage = "AI Quota Exceeded. Please try again later."
    /\ routeCoordinates = <<>>
    /\ stamps = <<>>
    /\ ~isLoading
    /\ idCounter > 0

----------------------------------------------------------------------------
(* Properties of the status and the stamps of a generated route, under SpecRoute *)

\* the valid entries of the response just processed
ValidOfLast == Len(ValidCoords(lastResolve.rawCoords, 1))

\* C18: after a resolver response with v >= 1 valid entries and m >= 1 missing ones,
\* the status message is 'Found v places. m missing.' with v the length of
\* routeCoordinates and m the length of missingLocations.
C18_FoundStatus ==
    (/\ lastOp = "resolverReturns"
     /\ ValidOfLast >= 1
     /\ Len(lastResolve.rawCoords) - ValidOfLast >= 1) =>
       /\ Len(routeCoordinates) = ValidOfLast
       /\ Len(missingLocations) = Len(lastResolve.rawCoords) - ValidOfLast
       /\ statusMessage = "Found " \o ToString(Len(routeCoordinates)) \o " places. "
                              \o ToString(Len(missingLocations)) \o " missing."

C18_Witness ==
    /\ lastOp = "resolverReturns"
    /\ NamesOf(routeCoordinates) = <<"Paris">>
    /\ missingLocations = <<"Null Island">>
    /\ Len(stamps) = 1
    /\ statusMessage = "Found 1 places. 1 missing."

----------------------------------------------------------------------------
(* Properties of the custom icon, under SpecIcon *)

\* C15: once onUploadIcon has set isGeneratingIcon, the flag is reset with no other
\* user action whether the processing succeeds or fails: while the flag is set, a
\* callback of an upload is still due.
C15_IconFlagReset == isGeneratingIcon => pendingIcons # <<>>

\* C19: a route request with non-empty input empties routeCoordinates,
\* missingLocations and stamps and unsets the custom icon before the resolver is
\* called, and they are so until a next handler runs; a request with empty or
\* whitespace-only input changes no state.
C19_RequestClears ==
    [][OnGenerateRoute =>
          IF IsBlank(locationInput)
          THEN UNCHANGED <<locationInput, flagVars, styleVars, routeStore, statusMessage,
                           pendingResolves, libraryVars, editorVars, callVars>>
          ELSE /\ routeCoordinates' = <<>>
               /\ missingLocations' = <<>>
               /\ stamps' = <<>>
               /\ customIconUrl' = Null
               /\ Len(pendingResolves') = Len(pendingResolves) + 1]_vars

C19_Witness ==
    /\ lastOp = "onGenerateRoute"
    /\ pendingResolves # <<>>
    /\ idCounter > 0
    /\ routeCoordinates = <<>>
    /\ stamps = <<>>
    /\ customIconUrl = Null
    /\ ~isGeneratingIcon
    /\ statusMessage = "Tracing your route on the globe..."

----------------------------------------------------------------------------
(* Properties of the default stamps, under SpecStamps *)

\* C20: after a route generation that resolves at least one place, stamps and
\* routeCoordinates have the same length and, for every i, stamps[i] has the name of
\* routeCoordinates[i], the color of the palette at (i - 1) mod 5, selected = false, no
\* imageUrl and a rotation in -15..15; the ids of the stamps are pairwise distinct.
C20_StampsMatchRoute ==
    (lastOp = "resolverReturns" /\ routeCoordinates # <<>>) =>
       /\ Len(stamps) = Len(routeCoordinates)
       /\ \A i \in DOMAIN stamps :
             /\ stamps[i].name = routeCoordinates[i].name
             /\ stamps[i].color = colors[((i - 1) % 5) + 1]
             /\ stamps[i].selected = FALSE
             /\ "imageUrl" \notin DOMAIN stamps[i]
             /\ stamps[i].rotation \in -15..15
       /\ \A i, j \in DOMAIN stamps : i # j => stamps[i].id # stamps[j].id

C20_Witness ==
    /\ lastOp = "resolverReturns"
    /\ Len(stamps) = 6
    /\ Len(routeCoordinates) = 6
    /\ missingLocations = <<"Null Island">>
    /\ stamps[6].color = stamps[1].color
    /\ stamps[1].rotation = -15
    /\ stamps[6].rotation = 14

----------------------------------------------------------------------------
(* Properties of the busy flags and of the stamp editor, under SpecBusy *)

\* C14: whenever route generation, AI stamp generation or the download of the
\* selected stamps has set its flag (isLoading, isGeneratingStamp, isExporting), the
\* flag is false again later, whether the awaited call returns or throws.
C14_BusyFlagsReset ==
    /\ isLoading ~> ~isLoading
    /\ isGeneratingStamp ~> ~isGeneratingStamp
    /\ isExporting ~> ~isExporting

C14_Witness ==
    /\ lastOp = "canvasThrows"
    /\ alerted = DownloadFailedAlert
    /\ ~isExporting
    /\ ~isLoading
    /\ ~isGeneratingStamp
    /\ editingStamp # Null
    /\ "imageUrl" \in DOMAIN editingStamp

\* C16: generateAiStamp makes one call of the stamp image generator; when the call
\* fails no further call is made, the stamp in the editor and the stamps list are
\* as they were, and isGeneratingStamp is false.
C16_StampFailure ==
    [][/\ (generateAiStamp /\ editingStamp # Null /\ stampPrompt # "") =>
             /\ Len(pendingStamps') = Len(pendingStamps) + 1
             /\ UNCHANGED <<editingStamp, stamps>>
       /\ (generateAiStamp /\ (editingStamp = Null \/ stampPrompt = "")) =>
             UNCHANGED <<pendingStamps, editingStamp, stamps, isGeneratingStamp>>
       /\ \A k \in DOMAIN pendingStamps :
             stampImageThrows(k) =>
                /\ Len(pendingStamps') = Len(pendingStamps) - 1
                /\ UNCHANGED <<editingStamp, stamps>>
                /\ ~isGeneratingStamp'
                /\ alerted' = StampFailedAlert]_vars

C16_Witness ==
    /\ lastOp = "stampImageThrows"
    /\ ~isGeneratingStamp
    /\ pendingStamps = <<>>
    /\ editingStamp # Null
    /\ "imageUrl" \in DOMAIN editingStamp
    /\ editingStamp.imageUrl = Str(GeneratedStamp)
    /\ editingStamp.description = "neon"

----------------------------------------------------------------------------
(* The active trip and the library, under SpecShare *)

\* the handlers that change the active Route Store or StyleConfig
ActiveMutations ==
    {"saveStampChanges", "toggleStampSelection", "toggleAllStamps", "revertStampStyle",
     "openStampEditor", "closeStampEditor", "setMapStyle", "setLocationInput",
     "onGenerateRoute", "resolverReturns"}

\* a stamp of the active trip differs from the stamp of the same id in a saved trip
ActiveDiffersFromSaved ==
    \E t \in DOMAIN savedTrips :
       /\ IsArray(Get(savedTrips[t], "stamps"))
       /\ \E i \in DOMAIN savedTrips[t].stamps.val, j \in DOMAIN stamps :
             /\ savedTrips[t].stamps.val[i].id = stamps[j].id
             /\ savedTrips[t].stamps.val[i] # stamps[j]

\* C12: once trips are saved, loaded or imported, a step that changes the active trip
\* (a stamp edit saved, a selection toggled, the style changed, the route generated
\* again) leaves the in-memory saved list and the durable list as they were.
C12_NoSharedState ==
    [][lastOp' \in ActiveMutations => UNCHANGED <<savedTrips, storage>>]_vars

C12_Witness ==
    /\ lastOp = "saveStampChanges"
    /\ Len(savedTrips) = 1
    /\ storage = persistTrips(savedTrips, TRUE)
    /\ ActiveDiffersFromSaved
    /\ mapStyle = "vintage"

\* the trip a step starts to load: loadTrip and onImportTrip put it on the timer
LoadStarted == Len(pendingLoads') = Len(pendingLoads) + 1

\* C11: loadTrip of a trip without a styleConfig sets the style to standard, #4f46e5,
\* 4, no custom icon and small, whatever the style was before; loadTrip of a trip
\* with a styleConfig sets each style field from the trip (no icon where the trip
\* has none, small where it has no height).
C11_LoadTripStyle ==
    [][LoadStarted =>
         LET trip == pendingLoads'[Len(pendingLoads')]
         IN  IF "styleConfig" \in DOMAIN trip
             THEN /\ mapStyle' = trip.styleConfig.style
                  /\ routeColor' = trip.styleConfig.color
                  /\ routeWeight' = trip.styleConfig.weight
                  /\ customIconUrl' = IF "customIconUrl" \in DOMAIN trip.styleConfig
                                         /\ trip.styleConfig.customIconUrl.type = "string"
                                         /\ trip.styleConfig.customIconUrl.val # ""
                                      THEN trip.styleConfig.customIconUrl ELSE Null
                  /\ mapHeight' = IF "mapHeight" \in DOMAIN trip.styleConfig
                                  THEN trip.styleConfig.mapHeight ELSE "small"
             ELSE /\ mapStyle' = "standard"
                  /\ routeColor' = "#4f46e5"
                  /\ routeWeight' = 4
                  /\ customIconUrl' = Null
                  /\ mapHeight' = "small"]_vars

\* a trip without a styleConfig was loaded from the library over another style
C11_Witness ==
    /\ lastOp = "loadTrip"
    /\ savedFrom = <<>>
    /\ \E i \in DOMAIN savedTrips : "styleConfig" \notin DOMAIN savedTrips[i]
    /\ pendingLoads # <<>>
    /\ mapStyle = "standard"
    /\ stamps # <<>>
    /\ \E j \in DOMAIN stamps : "imageUrl" \in DOMAIN stamps[j]

----------------------------------------------------------------------------
(* The startup load, under SpecStartup *)

\* C17: after the constructor has loaded a stored list, every trip of the saved list
\* has a non-empty string as its id; the durable list is rewritten from the saved
\* list when an id was changed and is left alone otherwise.
C17_StartupNormalizesIds ==
    [][(lastOp' = "constructor" /\ storage # Null) =>
          /\ \A i \in DOMAIN savedTrips' :
                /\ Get(savedTrips'[i], "id").type = "string"
                /\ Get(savedTrips'[i], "id").val # ""
          /\ IF savedTrips' # storage.val
             THEN storage' = Arr(JsonTrips(savedTrips'))
             ELSE storage' = storage]_vars

----------------------------------------------------------------------------
(* Properties of the responses of the resolver, under SpecRoute *)

\* the step processes a response of the resolver without a valid entry
NoneValidReturned ==
    /\ lastOp' = "resolverReturns"
    /\ \A i \in DOMAIN lastResolve'.rawCoords : ~IsValidCoordinate(lastResolve'.rawCoords[i])

\* C21: when the resolver returns and no entry is valid, the handler leaves
\* routeCoordinates and stamps as they are (empty when no response was processed since
\* the request), puts one name for each returned entry in missingLocations, sets the
\* status 'Could not find any of those locations.' and resets isLoading.
C21_NoneValid ==
    [][NoneValidReturned =>
          /\ UNCHANGED <<routeCoordinates, stamps>>
          /\ statusMessage = "Tracing your route on the globe..." =>
                (routeCoordinates' = <<>> /\ stamps' = <<>>)
          /\ Len(missingLocations') = Len(lastResolve'.rawCoords)
          /\ statusMessage' = "Could not find any of those locations."
          /\ ~isLoading']_vars

C21_Witness ==
    /\ lastOp = "resolverReturns"
    /\ Len(lastResolve.rawCoords) = 2
    /\ missingLocations = <<"Null Island", "Rome">>
    /\ routeCoordinates = <<>>
    /\ stamps = <<>>
    /\ statusMessage = "Could not find any of those locations."
    /\ ~isLoading

\* an entry with both components given and not both of them zero
OffZeroZero(item) ==
    /\ item.lat # <<>>
    /\ item.lng # <<>>
    /\ ~(item.lat = <<0>> /\ item.lng = <<0>>)

\* C23: an entry of the response is invalid only when lat or lng is null or the
\* coordinate is (0,0): every entry with both components given and not both zero,
\* one of them being zero included, is placed in routeCoordinates.
C23_OnlyZeroZeroInvalid ==
    lastOp = "resolverReturns" =>
       \A i \in DOMAIN lastResolve.rawCoords :
          OffZeroZero(lastResolve.rawCoords[i]) =>
             lastResolve.rawCoords[i].name \in Range(NamesOf(routeCoordinates))

----------------------------------------------------------------------------
(* Requests in flight together, under SpecOverlap *)

\* the response of request A was processed last, after the one of request B
StaleLast ==
    /\ lastOp = "resolverReturns"
    /\ pendingResolves = <<>>
    /\ lastResolve.locations = <<RequestOrder[1]>>

\* the status the handler sets for a response
StatusOf(rawCoords) ==
    IF ValidCoords(rawCoords, 1) = <<>> THEN "Could not find any of those locations."
    ELSE IF Len(ValidCoords(rawCoords, 1)) < Len(rawCoords)
    THEN "Found " \o ToString(Len(ValidCoords(rawCoords, 1))) \o " places. "
            \o ToString(Len(rawCoords) - Len(ValidCoords(rawCoords, 1))) \o " missing."
    ELSE "Route mapped!"

\* C22 as stated: when A's response arrives after B's, the Route Store and the status
\* are the ones built from A's response.
C22_StaleResponseWins ==
    StaleLast =>
       /\ routeCoordinates = ValidCoords(lastResolve.rawCoords, 1)
       /\ missingLocations = Missing(lastResolve.rawCoords, RequestOrder[1], 1)
       /\ NamesOf(stamps) = NamesOf(routeCoordinates)
       /\ statusMessage = StatusOf(lastResolve.rawCoords)

\* the response of request A is processed while no other call is in flight
StaleStep ==
    /\ pendingResolves = <<RequestOrder[1]>>
    /\ lastOp' = "resolverReturns"

\* C22: when A's response arrives after B's, nothing discards it: the missing list and
\* the status are the ones of A's response; the coordinates and the stamps are the
\* ones of A's response when it has a valid entry, and are left as B's response made
\* them when it has none.
C22_StaleResponseClobbers ==
    [][StaleStep =>
          /\ missingLocations' = Missing(lastResolve'.rawCoords, RequestOrder[1], 1)
          /\ statusMessage' = StatusOf(lastResolve'.rawCoords)
          /\ IF ValidCoords(lastResolve'.rawCoords, 1) # <<>>
             THEN /\ routeCoordinates' = ValidCoords(lastResolve'.rawCoords, 1)
                  /\ NamesOf(stamps') = NamesOf(routeCoordinates')
             ELSE UNCHANGED <<routeCoordinates, stamps>>]_vars

C22_Witness ==
    /\ StaleLast
    /\ locationInput = <<" Rome ">>
    /\ NamesOf(routeCoordinates) = <<"Paris">>
    /\ NamesOf(stamps) = <<"Paris">>
    /\ statusMessage = "Route mapped!"
    /\ idCounter = 2

----------------------------------------------------------------------------
(* The layers of the map, under SpecMap *)

\* the signals of the style effect that differ from what it last ran with
StyleChanged == {i \in 1..4 : StyleSeen[i] # mapView.seenStyle[i]}

\* C24: with a map present, a change of the map style alone redraws the tile layer
\* only, a change of color or weight the route path only, a change of the icon the
\* markers only; the map itself is rebuilt by initMap only.
C24_OnlyAffectedLayer ==
    [][/\ (lastOp' = "styleEffect" /\ mapView.map) =>
             /\ StyleChanged = {1} => mapView'.rendered = {"tiles"}
             /\ (StyleChanged # {} /\ StyleChanged \subseteq {2, 3}) =>
                   mapView'.rendered \subseteq {"path"}
             /\ StyleChanged = {4} => mapView'.rendered = {"markers"}
       /\ (mapView' # mapView /\ "map" \in mapView'.rendered) => lastOp' = "initMapTimer"]_vars

----------------------------------------------------------------------------
(* The library in memory and in localStorage, under SpecDurable *)

\* JSON.parse of what localStorage holds under travel_route_trips; no list when nothing
\* was written yet
DurableList == IF storage = Null THEN <<>> ELSE storage.val

\* C25: while every write of localStorage succeeds, the saved trips in memory are the
\* stored trips, the same trips in the same order, after the startup load and after every
\* saveTrip, onImportTrip and confirmDeleteTrip; the trips in memory are compared as
\* JSON.stringify writes them.
C25_ListsAgree ==
    /\ JsonTrips(savedTrips) = DurableList
    /\ [i \in DOMAIN savedTrips |-> Get(savedTrips[i], "id")]
          = [i \in DOMAIN DurableList |-> Get(DurableList[i], "id")]

C25_Witness ==
    /\ lastOp = "confirmDeleteTrip"
    /\ Len(savedTrips) = 1
    /\ savedTrips # DurableList
    /\ JsonTrips(savedTrips) = DurableList

----------------------------------------------------------------------------
(* The stamp in the editor, under SpecEditor *)

\* C26: the stamp editor changes through its own actions only: a closed editor stays
\* empty until openStampEditor, and an open editor keeps the id of the stamp it was
\* opened on until it is closed or opened on another stamp, also when an AI generation
\* or a file read started earlier completes.
C26_EditorOwnActions ==
    [][/\ (editingStamp = Null /\ editingStamp' # Null) => lastOp' = "openStampEditor"
       /\ (editingStamp # Null /\ editingStamp' # Null /\ editingStamp'.id # editingStamp.id)
             => lastOp' = "openStampEditor"]_vars

----------------------------------------------------------------------------
(* Stamps and coordinates, under Spec *)

\* a trip with as many stamps as coordinates
Paired(trip) ==
    /\ IsArray(trip.coordinates)
    /\ IsArray(trip.stamps)
    /\ Len(trip.stamps.val) = Len(trip.coordinates.val)

\* C27: when every trip of the library and every trip being loaded has as many stamps
\* as coordinates, there are as many stamps as route coordinates in every state, also
\* while a route is generated and between loadTrip and its timer.
C27_StampsPaired ==
    (/\ \A i \in DOMAIN savedTrips : Paired(savedTrips[i])
     /\ \A j \in DOMAIN pendingLoads : Paired(pendingLoads[j]))
       => Len(stamps) = Len(routeCoordinates)

====
